---------------------------- MODULE Spec2Model ----------------------------
(***************************************************************************)
(* Model of the chartwise technical-analysis engine:                       *)
(*   - the candlestick pattern detector (src/src/utils/candlePatterns.ts), *)
(*   - the divergence detector          (src/unnamed/part_002),            *)
(*   - the correlation engine and the correlation matrix built from it     *)
(*                                      (src/unnamed/part_001),            *)
(*   - the treemap layout engine (src/src/components/MarketHeatmap.tsx),   *)
(*   - the React components PatternDetector (PatternDetector.tsx),         *)
(*     MultiTimeframe and MultiChartView (MultiTimeframe.tsx) and          *)
(*     LongShortRatio (src/unnamed/part_003).                              *)
(* Each part has its own variables (arguments, locals and returned value   *)
(* of a function; props, state and requests in flight of a component) and  *)
(* its own specification, in which the other parts' variables stay put.    *)
(* A component's step is a handler or prop change together with the        *)
(* effect cleanups and effect runs of the commit that follows it, up to    *)
(* the first await; the continuation after an await is a step of its own.  *)
(*                                                                         *)
(* Numbers are exact: prices are integers and every quotient the code      *)
(* forms (avgBody, the relative moves, the correlation coefficient) is     *)
(* kept as a fraction and compared by cross-multiplication, so a threshold *)
(* such as body < avgBody * 0.1 is decided as in real arithmetic; the      *)
(* rounding of IEEE doubles is not modelled.                               *)
(* Array positions are 0-based as in the code; Sequences are 1-based, so   *)
(* the element at code position i is s[i + 1].                             *)
(* RSI and MACD (utils/indicators) are called by the divergence detector   *)
(* but are not part of the sources at hand: their outputs are inputs of    *)
(* the model, drawn from series with the documented undefined warm-up.     *)
(***************************************************************************)
EXTENDS Integers, Sequences, FiniteSets, TLC

VARIABLES
    data,       \* detectCandlePatterns: the OHLCV series passed in
    lookback,   \* detectCandlePatterns: the lookback argument
    patterns,   \* detectCandlePatterns: the local list after the scan
    returned,   \* detectCandlePatterns: the returned list
    ppc,        \* "input" while the caller builds the series, "done" after the call
    closes,          \* DivergenceDetector: data.map(d => d.close), the data prop
    rsiValues,       \* DivergenceDetector: what RSI(closes, 14) returned
    histogram,       \* DivergenceDetector: what MACD(closes).histogram was
    indicatorsRun,   \* DivergenceDetector: whether lines 152-157 were executed
    divergences,     \* DivergenceDetector: the memoised list
    dpc,             \* "stale" before the memo callback ran for closes, "fresh" after
    seriesA,    \* calculateCorrelation: the argument a
    seriesB,    \* calculateCorrelation: the argument b
    corr,       \* calculateCorrelation: the returned value
    cpc,        \* "input" while the caller builds the series, "done" after the call
    sortedAssets,    \* MarketHeatmap: the sortedAssets memo (empty for a direct call)
    items,           \* squarify: the items argument
    containerWidth,  \* squarify: the containerWidth argument
    containerHeight, \* squarify: the containerHeight argument
    layout,          \* squarify: the returned list of rectangles
    tpc,        \* "input" while the item list is built, "done" after the call
    isOpen,      \* CorrelationMatrix: the isOpen state
    loading,     \* CorrelationMatrix: the loading state
    allReturns,  \* CorrelationMatrix.fetchData: the local allReturns
    fetched,     \* CorrelationMatrix.fetchData: symbols of CRYPTO_SYMBOLS handled so far
    returns,     \* CorrelationMatrix: the returns state
    matrix,      \* CorrelationMatrix: the matrix memo
    mpc,        \* "closed" before the panel is opened, "fetching", then "shown"
    series,      \* findPeaks: the data argument
    window,      \* findPeaks: the lookback argument
    peaks,       \* findPeaks: the returned list
    kpc,        \* "input" while the caller builds the series, "done" after the call
    priceSeries,   \* detectDivergences: the prices argument
    oscSeries,     \* detectDivergences: the indicatorValues argument
    peakWindow,    \* detectDivergences: the lookback argument
    distanceLimit, \* detectDivergences: the maxDistance argument
    detected,      \* detectDivergences: the returned list
    xpc,        \* "input" before the call, "done" after it
    propData,        \* PatternDetector: the data prop
    storedPatterns,  \* PatternDetector: the array held by the patterns state
    expanded,        \* PatternDetector: the expanded state
    shownPatterns,   \* PatternDetector: the list the last render mapped to rows
    renderDue,       \* PatternDetector: a prop or state changed since the last render
    effectDue,       \* PatternDetector: the data prop changed since the effect last ran
    tfSymbol,        \* MultiTimeframe: the symbol prop
    panelOpen,       \* MultiTimeframe: the isOpen state
    timeframeData,   \* MultiTimeframe: the timeframeData state, keyed by days
    fetchedRef,      \* MultiTimeframe: fetchedRef.current
    inflight,        \* MultiTimeframe: the fetchAll calls awaiting Promise.allSettled,
                     \* each with its symbol and its cancelled flag
    loadedFor,       \* MultiTimeframe: the symbol of the fetchAll call that last
                     \* wrote its results (history, not read by the component)
    lsrSymbol,       \* LongShortRatio: the symbol prop
    lsrOpen,         \* LongShortRatio: the isOpen state
    lsrData,         \* LongShortRatio: the data state
    lsrLoading,      \* LongShortRatio: the loading state
    pendingLoads,    \* LongShortRatio: per symbol, the load() calls awaiting fetchLSR
    pollFor,         \* LongShortRatio: the symbol the live interval loads, "" for none
    viewOpen,        \* MultiChartView: the isOpen prop
    selectedSymbols, \* MultiChartView: the selectedSymbols state
    chartData,       \* MultiChartView: the chartData state, keyed by symbol
    chartLoading,    \* MultiChartView: the symbols whose loading entry is true
    chartPending,    \* MultiChartView: the symbols with a callback awaiting its fetch
                     \* (callbacks of one symbol are followed as one)
    candleCount,     \* analyses: tfData.data.length of one timeframe
    entryLoading,    \* analyses: tfData.loading of that timeframe
    lastPrice,       \* analyses: closes[closes.length - 1]
    lastSma,         \* analyses: the last value of SMA(closes, ...)
    lastHistogram,   \* analyses: the last value of MACD(closes).histogram
    currentRsi,      \* analyses: the last value of RSI(closes, 14)
    analysis,        \* analyses: the entry returned for the timeframe
    apc             \* "input" before the memo callback ran, "done" after it

patVars == <<data, lookback, patterns, returned, ppc>>
divVars == <<closes, rsiValues, histogram, indicatorsRun, divergences, dpc>>

corVars == <<seriesA, seriesB, corr, cpc>>
mapVars == <<sortedAssets, items, containerWidth, containerHeight, layout, tpc>>
matVars == <<isOpen, loading, allReturns, fetched, returns, matrix, mpc>>
pkVars == <<series, window, peaks, kpc>>
detVars == <<priceSeries, oscSeries, peakWindow, distanceLimit, detected, xpc>>
cmpVars == <<propData, storedPatterns, expanded, shownPatterns, renderDue, effectDue>>
tfVars == <<tfSymbol, panelOpen, timeframeData, fetchedRef, inflight, loadedFor>>
lsrVars == <<lsrSymbol, lsrOpen, lsrData, lsrLoading, pendingLoads, pollFor>>
mcvVars == <<viewOpen, selectedSymbols, chartData, chartLoading, chartPending>>
anaVars == <<candleCount, entryLoading, lastPrice, lastSma, lastHistogram, currentRsi,
             analysis, apc>>

vars == <<patVars, divVars, corVars, mapVars, matVars, pkVars, detVars, cmpVars, tfVars, lsrVars, mcvVars, anaVars>>

\* What an operation of one component leaves alone: the other components' state
notPatVars == <<divVars, corVars, mapVars, matVars, pkVars, detVars, cmpVars, tfVars, lsrVars, mcvVars, anaVars>>
notDivVars == <<patVars, corVars, mapVars, matVars, pkVars, detVars, cmpVars, tfVars, lsrVars, mcvVars, anaVars>>
notCorVars == <<patVars, divVars, mapVars, matVars, pkVars, detVars, cmpVars, tfVars, lsrVars, mcvVars, anaVars>>
notMapVars == <<patVars, divVars, corVars, matVars, pkVars, detVars, cmpVars, tfVars, lsrVars, mcvVars, anaVars>>
notMatVars == <<patVars, divVars, corVars, mapVars, pkVars, detVars, cmpVars, tfVars, lsrVars, mcvVars, anaVars>>
notPkVars == <<patVars, divVars, corVars, mapVars, matVars, detVars, cmpVars, tfVars, lsrVars, mcvVars, anaVars>>
notDetVars == <<patVars, divVars, corVars, mapVars, matVars, pkVars, cmpVars, tfVars, lsrVars, mcvVars, anaVars>>
notCmpVars == <<patVars, divVars, corVars, mapVars, matVars, pkVars, detVars, tfVars, lsrVars, mcvVars, anaVars>>
notTfVars == <<patVars, divVars, corVars, mapVars, matVars, pkVars, detVars, cmpVars, lsrVars, mcvVars, anaVars>>
notLsrVars == <<patVars, divVars, corVars, mapVars, matVars, pkVars, detVars, cmpVars, tfVars, mcvVars, anaVars>>
notMcvVars == <<patVars, divVars, corVars, mapVars, matVars, pkVars, detVars, cmpVars, tfVars, lsrVars, anaVars>>
notAnaVars == <<patVars, divVars, corVars, mapVars, matVars, pkVars, detVars, cmpVars, tfVars, lsrVars, mcvVars>>

----------------------------------------------------------------------------
(* Generic helpers *)

Abs(x) == IF x < 0 THEN -x ELSE x
Max(a, b) == IF a >= b THEN a ELSE b
Min(a, b) == IF a <= b THEN a ELSE b

\* Array.prototype.slice(start) for an integer start (negative counts from the end)
SliceFrom(s, start) ==
    LET len  == Len(s)
        from == IF start < 0 THEN Max(len + start, 0) ELSE Min(start, len)
    IN  SubSeq(s, from + 1, len)

\* Array.prototype.slice(start, end) for integers 0 <= start <= end
SliceRange(s, start, end) == SubSeq(s, Min(start, Len(s)) + 1, Min(end, Len(s)))

\* A fraction num/den with den > 0
Frac(n, d) == [num |-> n, den |-> d]
R(x) == Frac(x, 1)
Times(f, p, q) == Frac(f.num * p, f.den * q)      \* f * (p/q), q > 0
FLt(x, y) == x.num * y.den < y.num * x.den
FGt(x, y) == FLt(y, x)

RECURSIVE SumSeq(_)
SumSeq(s) == IF s = <<>> THEN 0 ELSE Head(s) + SumSeq(Tail(s))

----------------------------------------------------------------------------
(* Candlestick pattern detector *)

bodySize(c)   == Abs(c.close - c.open)
upperWick(c)  == c.high - Max(c.open, c.close)
lowerWick(c)  == Min(c.open, c.close) - c.low
isBullish(c)  == c.close > c.open
isBearishOrFlat(c) == c.close <= c.open
isBearish(c)  == c.close < c.open
totalRange(c) == c.high - c.low

Pattern(n, t, d, r) ==
    [name |-> n, type |-> t, description |-> d, index |-> 0, reliability |-> r]

\* A detector returns <<p>> for a match and <<>> for null.
detectDojiAbsolute(c, avgBody) ==
    IF bodySize(c) < 2 /\ FGt(R(totalRange(c)), Times(avgBody, 1, 2))
    THEN <<Pattern("Doji", "neutral", "Indecision - potential reversal", "medium")>>
    ELSE <<>>

detectDoji(c, avgBody) ==
    IF FLt(R(bodySize(c)), Times(avgBody, 1, 10))
       /\ FGt(R(totalRange(c)), Times(avgBody, 1, 2))
    THEN <<Pattern("Doji", "neutral", "Indecision - potential reversal", "medium")>>
    ELSE <<>>

detectHammer(c, avgBody) ==
    LET body  == bodySize(c)
        lower == lowerWick(c)
        upper == upperWick(c)
    IN  IF lower > body * 2 /\ 2 * upper < body
           /\ FGt(R(body), Times(avgBody, 3, 10))
        THEN <<Pattern(IF isBullish(c) THEN "Hammer" ELSE "Hanging Man",
                       IF isBullish(c) THEN "bullish" ELSE "bearish",
                       IF isBullish(c) THEN "Bullish reversal signal"
                                       ELSE "Bearish reversal signal",
                       "high")>>
        ELSE <<>>

detectShootingStar(c, avgBody) ==
    LET body  == bodySize(c)
        lower == lowerWick(c)
        upper == upperWick(c)
    IN  IF upper > body * 2 /\ 2 * lower < body
           /\ FGt(R(body), Times(avgBody, 3, 10))
        THEN <<Pattern(IF isBearish(c) THEN "Shooting Star" ELSE "Inverted Hammer",
                       IF isBearish(c) THEN "bearish" ELSE "bullish",
                       IF isBearish(c) THEN "Bearish reversal signal"
                                       ELSE "Potential bullish reversal",
                       "high")>>
        ELSE <<>>

detectMarubozu(c, avgBody) ==
    LET body  == bodySize(c)
        upper == upperWick(c)
        lower == lowerWick(c)
    IN  IF FGt(R(body), Times(avgBody, 3, 2))
           /\ 20 * upper < body /\ 20 * lower < body
        THEN <<Pattern(IF isBullish(c) THEN "Bullish Marubozu" ELSE "Bearish Marubozu",
                       IF isBullish(c) THEN "bullish" ELSE "bearish",
                       "Strong momentum continuation", "high")>>
        ELSE <<>>

detectEngulfing(prev, curr, avgBody) ==
    LET prevBody == bodySize(prev)
        currBody == bodySize(curr)
    IN  IF isBearish(prev) /\ isBullish(curr)
           /\ 5 * currBody > 6 * prevBody
           /\ curr.open < prev.close /\ curr.close > prev.open
        THEN <<Pattern("Bullish Engulfing", "bullish",
                       "Strong bullish reversal pattern", "high")>>
        ELSE IF isBullish(prev) /\ isBearish(curr)
                /\ 5 * currBody > 6 * prevBody
                /\ curr.open > prev.close /\ curr.close < prev.open
        THEN <<Pattern("Bearish Engulfing", "bearish",
                       "Strong bearish reversal pattern", "high")>>
        ELSE <<>>

detectPiercing(prev, curr) ==
    IF isBearish(prev) /\ isBullish(curr)
       /\ curr.open < prev.low
       /\ 2 * curr.close > prev.open + prev.close
       /\ curr.close < prev.open
    THEN <<Pattern("Piercing Line", "bullish",
                   "Bullish reversal - closes above midpoint", "medium")>>
    ELSE <<>>

detectDarkCloud(prev, curr) ==
    IF isBullish(prev) /\ isBearish(curr)
       /\ curr.open > prev.high
       /\ 2 * curr.close < prev.open + prev.close
       /\ curr.close > prev.open
    THEN <<Pattern("Dark Cloud Cover", "bearish",
                   "Bearish reversal - closes below midpoint", "medium")>>
    ELSE <<>>

\* idx is the 0-based position of the third candle in d
detectMorningStar(d, idx, avgBody) ==
    IF idx < 2 THEN <<>>
    ELSE LET first == d[idx - 1]  second == d[idx]  third == d[idx + 1]
         IN  IF isBearish(first) /\ FGt(R(bodySize(first)), avgBody)
                /\ FLt(R(bodySize(second)), Times(avgBody, 3, 10))
                /\ isBullish(third) /\ FGt(R(bodySize(third)), avgBody)
                /\ 2 * third.close > first.open + first.close
             THEN <<Pattern("Morning Star", "bullish",
                            "Strong bullish reversal (3-candle)", "high")>>
             ELSE <<>>

detectEveningStar(d, idx, avgBody) ==
    IF idx < 2 THEN <<>>
    ELSE LET first == d[idx - 1]  second == d[idx]  third == d[idx + 1]
         IN  IF isBullish(first) /\ FGt(R(bodySize(first)), avgBody)
                /\ FLt(R(bodySize(second)), Times(avgBody, 3, 10))
                /\ isBearish(third) /\ FGt(R(bodySize(third)), avgBody)
                /\ 2 * third.close < first.open + first.close
             THEN <<Pattern("Evening Star", "bearish",
                            "Strong bearish reversal (3-candle)", "high")>>
             ELSE <<>>

detectThreeWhiteSoldiers(d, idx, avgBody) ==
    IF idx < 2 THEN <<>>
    ELSE LET c0 == d[idx - 1]  c1 == d[idx]  c2 == d[idx + 1]
         IN  IF (\A c \in {c0, c1, c2} :
                     isBullish(c) /\ FGt(R(bodySize(c)), Times(avgBody, 7, 10)))
                /\ c1.close > c0.close /\ c2.close > c1.close
                /\ c1.open > c0.open /\ c2.open > c1.open
             THEN <<Pattern("Three White Soldiers", "bullish",
                            "Strong bullish continuation", "high")>>
             ELSE <<>>

detectThreeBlackCrows(d, idx, avgBody) ==
    IF idx < 2 THEN <<>>
    ELSE LET c0 == d[idx - 1]  c1 == d[idx]  c2 == d[idx + 1]
         IN  IF (\A c \in {c0, c1, c2} :
                     isBearish(c) /\ FGt(R(bodySize(c)), Times(avgBody, 7, 10)))
                /\ c1.close < c0.close /\ c2.close < c1.close
                /\ c1.open < c0.open /\ c2.open < c1.open
             THEN <<Pattern("Three Black Crows", "bearish",
                            "Strong bearish continuation", "high")>>
             ELSE <<>>

\* doji.index = globalIdx; patterns.push(doji)
Tag(found, globalIdx) == [k \in DOMAIN found |-> [found[k] EXCEPT !.index = globalIdx]]

recentDataOf(d, lb) == SliceFrom(d, -lb)

avgBodyOf(recentData) ==
    Frac(SumSeq([k \in DOMAIN recentData |-> bodySize(recentData[k])]), Len(recentData))

globalIdxOf(d, lb, i) == Len(d) - lb + i

\* One iteration of the scan loop: the matches pushed for position i of recentData
ScanAt(d, lb, recentData, avgBody, i) ==
    LET globalIdx == globalIdxOf(d, lb, i)
        candle    == recentData[i + 1]
        single    == detectDoji(candle, avgBody) \o detectHammer(candle, avgBody)
                     \o detectShootingStar(candle, avgBody)
                     \o detectMarubozu(candle, avgBody)
        double    == IF i > 0
                     THEN LET prev == recentData[i]
                          IN  detectEngulfing(prev, candle, avgBody)
                              \o detectPiercing(prev, candle)
                              \o detectDarkCloud(prev, candle)
                     ELSE <<>>
        triple    == IF i >= 2
                     THEN detectMorningStar(recentData, i, avgBody)
                          \o detectEveningStar(recentData, i, avgBody)
                          \o detectThreeWhiteSoldiers(recentData, i, avgBody)
                          \o detectThreeBlackCrows(recentData, i, avgBody)
                     ELSE <<>>
    IN  Tag(single \o double \o triple, globalIdx)

RECURSIVE ScanFrom(_, _, _, _, _)
ScanFrom(d, lb, recentData, avgBody, i) ==
    IF i >= Len(recentData) THEN <<>>
    ELSE ScanAt(d, lb, recentData, avgBody, i)
         \o ScanFrom(d, lb, recentData, avgBody, i + 1)

\* The local `patterns` when the loop ends (empty on the early return)
EarlyReturnBelowTwo(d) == Len(d) < 2
EarlyReturn(d) == Len(d) < 3

scanPatterns(d, lb) ==
    IF EarlyReturn(d) THEN <<>>
    ELSE LET recentData == recentDataOf(d, lb)
         IN  ScanFrom(d, lb, recentData, avgBodyOf(recentData), 0)

KeepLast == 10
firstPatterns(ps) == SliceRange(ps, 0, KeepLast)
lastPatterns(ps) == SliceFrom(ps, -KeepLast)

detectCandlePatterns(d, lb) == lastPatterns(scanPatterns(d, lb))

----------------------------------------------------------------------------
(* Divergence detector *)

\* A JavaScript number: a value, or NaN (the undefined entries of an indicator)
Num(x) == [nan |-> FALSE, v |-> x]
NaN == [nan |-> TRUE, v |-> 0]
isNaN(x) == x.nan

\* a / b for b # 0, with the sign carried by the numerator
FDiv(a, b) == IF b < 0 THEN Frac(-a, -b) ELSE Frac(a, b)
FAdd(x, y) == Frac(x.num * y.den + y.num * x.den, x.den * y.den)

Peak(i, x, t) == [index |-> i, value |-> x, type |-> t]

\* The inner loop of findPeaks: data[j] >= data[i] for no j of the window
\* (a comparison with NaN is skipped)
isHighAtOrEqual(d, w, i) ==
    \A j \in (i - w)..(i + w) :
        (j = i \/ isNaN(d[j + 1])) \/ ~(d[j + 1].v > d[i + 1].v)

isHighAt(d, w, i) ==
    \A j \in (i - w)..(i + w) :
        (j = i \/ isNaN(d[j + 1])) \/ ~(d[j + 1].v >= d[i + 1].v)

isLowAt(d, w, i) ==
    \A j \in (i - w)..(i + w) :
        (j = i \/ isNaN(d[j + 1])) \/ ~(d[j + 1].v <= d[i + 1].v)

RECURSIVE PeaksFrom(_, _, _)
PeaksFrom(d, w, i) ==
    IF i >= Len(d) - w THEN <<>>
    ELSE (IF isNaN(d[i + 1]) THEN <<>>
          ELSE (IF isHighAt(d, w, i) THEN <<Peak(i, d[i + 1].v, "high")>> ELSE <<>>)
               \o (IF isLowAt(d, w, i) THEN <<Peak(i, d[i + 1].v, "low")>> ELSE <<>>))
         \o PeaksFrom(d, w, i + 1)

findPeaks(d, w) == PeaksFrom(d, w, w)

IsHigh(p) == p.type = "high"
IsLow(p) == p.type = "low"

\* Array.prototype.find with the predicate |p.index - at| <= tol:
\* <<p>> for the first such element, <<>> for undefined
RECURSIVE findNearLoose(_, _, _)
findNearLoose(ps, at, tol) ==
    IF ps = <<>> THEN <<>>
    ELSE IF Abs(Head(ps).index - at) <= tol + 1 THEN <<Head(ps)>>
    ELSE findNearLoose(Tail(ps), at, tol)

RECURSIVE findNear(_, _, _)
findNear(ps, at, tol) ==
    IF ps = <<>> THEN <<>>
    ELSE IF Abs(Head(ps).index - at) <= tol THEN <<Head(ps)>>
    ELSE findNear(Tail(ps), at, tol)

\* combinedStrength > 0.15 ? 'strong' : combinedStrength > 0.08 ? 'moderate' : 'weak'
strengthOfInclusive(combinedStrength) ==
    IF ~FLt(combinedStrength, Frac(15, 100)) THEN "strong"
    ELSE IF ~FLt(combinedStrength, Frac(8, 100)) THEN "moderate"
    ELSE "weak"

strengthOf(combinedStrength) ==
    IF FGt(combinedStrength, Frac(15, 100)) THEN "strong"
    ELSE IF FGt(combinedStrength, Frac(8, 100)) THEN "moderate"
    ELSE "weak"

\* Math.abs(x || 1)
AbsOrOne(x) == Abs(IF x = 0 THEN 1 ELSE x)

Divergence(t, name, p1, p2, i1, i2, s, text) ==
    [type |-> t, indicator |-> name,
     startIndex |-> p1.index, endIndex |-> p2.index,
     priceStart |-> p1.value, priceEnd |-> p2.value,
     indicatorStart |-> i1.value, indicatorEnd |-> i2.value,
     strength |-> s, description |-> text]

\* One iteration of the bearish loop, for priceHighs[i] and priceHighs[i + 1] (0-based i)
bearishAt(priceHighs, indHighs, name, w, maxDistance, i) ==
    LET ph1 == priceHighs[i + 1]
        ph2 == priceHighs[i + 2]
        ih1 == findNear(indHighs, ph1.index, w + 2)
        ih2 == findNear(indHighs, ph2.index, w + 2)
    IN  IF ph2.index - ph1.index > maxDistance THEN <<>>
        ELSE IF ph2.value <= ph1.value THEN <<>>
        ELSE IF ih1 = <<>> \/ ih2 = <<>> THEN <<>>
        ELSE IF ih2[1].value >= ih1[1].value THEN <<>>
        ELSE LET priceDiff == FDiv(ph2.value - ph1.value, ph1.value)
                 indDiff   == FDiv(ih1[1].value - ih2[1].value, AbsOrOne(ih1[1].value))
                 combinedStrength == FAdd(priceDiff, indDiff)
             IN  <<Divergence("bearish", name, ph1, ph2, ih1[1], ih2[1],
                              strengthOf(combinedStrength),
                              "Price made a higher high while the indicator made a lower high")>>

\* One iteration of the bullish loop
bullishAt(priceLows, indLows, name, w, maxDistance, i) ==
    LET pl1 == priceLows[i + 1]
        pl2 == priceLows[i + 2]
        il1 == findNear(indLows, pl1.index, w + 2)
        il2 == findNear(indLows, pl2.index, w + 2)
    IN  IF pl2.index - pl1.index > maxDistance THEN <<>>
        ELSE IF pl2.value >= pl1.value THEN <<>>
        ELSE IF il1 = <<>> \/ il2 = <<>> THEN <<>>
        ELSE IF il2[1].value <= il1[1].value THEN <<>>
        ELSE LET priceDiff == FDiv(pl1.value - pl2.value, pl1.value)
                 indDiff   == FDiv(il2[1].value - il1[1].value, AbsOrOne(il1[1].value))
                 combinedStrength == FAdd(priceDiff, indDiff)
             IN  <<Divergence("bullish", name, pl1, pl2, il1[1], il2[1],
                              strengthOf(combinedStrength),
                              "Price made a lower low while the indicator made a higher low")>>

RECURSIVE bearishFrom(_, _, _, _, _, _)
bearishFrom(priceHighs, indHighs, name, w, maxDistance, i) ==
    IF i >= Len(priceHighs) - 1 THEN <<>>
    ELSE bearishAt(priceHighs, indHighs, name, w, maxDistance, i)
         \o bearishFrom(priceHighs, indHighs, name, w, maxDistance, i + 1)

RECURSIVE bullishFrom(_, _, _, _, _, _)
bullishFrom(priceLows, indLows, name, w, maxDistance, i) ==
    IF i >= Len(priceLows) - 1 THEN <<>>
    ELSE bullishAt(priceLows, indLows, name, w, maxDistance, i)
         \o bullishFrom(priceLows, indLows, name, w, maxDistance, i + 1)

detectDivergences(prices, indicatorValues, name, w, maxDistance) ==
    LET pricePeaks     == findPeaks(prices, w)
        indicatorPeaks == findPeaks(indicatorValues, w)
        priceHighs     == SelectSeq(pricePeaks, IsHigh)
        priceLows      == SelectSeq(pricePeaks, IsLow)
        indHighs       == SelectSeq(indicatorPeaks, IsHigh)
        indLows        == SelectSeq(indicatorPeaks, IsLow)
    IN  bearishFrom(priceHighs, indHighs, name, w, maxDistance, 0)
        \o bullishFrom(priceLows, indLows, name, w, maxDistance, 0)

\* Array.prototype.sort((a, b) => b.endIndex - a.endIndex): stable, descending endIndex
RECURSIVE insertByEndIndex(_, _)
insertByEndIndex(sorted, x) ==
    IF sorted = <<>> THEN <<x>>
    ELSE IF Head(sorted).endIndex >= x.endIndex
         THEN <<Head(sorted)>> \o insertByEndIndex(Tail(sorted), x)
         ELSE <<x>> \o sorted

RECURSIVE sortByEndIndexDesc(_)
sortByEndIndexDesc(s) ==
    IF s = <<>> THEN <<>>
    ELSE insertByEndIndex(sortByEndIndexDesc(SubSeq(s, 1, Len(s) - 1)), s[Len(s)])

PeakLookback == 5
MaxPeakDistance == 25
KeepTop == 10

rsiDivergencesOf(c, rsi) == detectDivergences(c, rsi, "RSI", PeakLookback, MaxPeakDistance)
macdDivergencesOf(c, hist) == detectDivergences(c, hist, "MACD", PeakLookback, MaxPeakDistance)

\* [...rsiDivergences, ...macdDivergences].sort(...).slice(0, 10)
aggregateCutFirst(rsiDivs, macdDivs) ==
    sortByEndIndexDesc(SliceRange(rsiDivs \o macdDivs, 0, KeepTop))

aggregate(rsiDivs, macdDivs) ==
    SliceRange(sortByEndIndexDesc(rsiDivs \o macdDivs), 0, KeepTop)

tooShortBelowTwenty(c) == Len(c) < 20
tooShort(c) == Len(c) < 30

\* The useMemo callback of DivergenceDetector
divergencesMemo(c, rsi, hist) ==
    IF tooShort(c) THEN <<>>
    ELSE aggregate(rsiDivergencesOf(c, rsi), macdDivergencesOf(c, hist))

RecentSpan == 20

\* The recentDivergences memo: divergences.filter(d => d.endIndex >= threshold)
recentDivergencesFromLast(divs, len) ==
    SelectSeq(divs, LAMBDA d : d.endIndex >= len - 1 - RecentSpan)

recentDivergences(divs, len) ==
    SelectSeq(divs, LAMBDA d : d.endIndex >= len - RecentSpan)

\* const candlesAgo = data.length - 1 - div.endIndex
candlesAgo(len, d) == len - 1 - d.endIndex

\* candlesAgo === 0 ? 'Current candle' : `${candlesAgo} candles ago`
agoLabel(n) == IF n = 0 THEN "Current candle" ELSE "candles ago"

----------------------------------------------------------------------------
(* Inputs of the pattern detector *)

Candle(o, h, l, c) == [open |-> o, high |-> h, low |-> l, close |-> c]

CandleA == Candle(120, 141, 109, 110)   \* bearish, long upper wick
CandleB == Candle(108, 119, 87, 118)    \* bullish, long lower wick
CandleD == Candle(100, 104, 96, 101)    \* tiny body
CandleM == Candle(100, 130, 100, 130)   \* bullish, no wicks
Candles == {CandleA, CandleB, CandleD, CandleM}

MaxCandles == 6
DefaultLookback == 50
Lookbacks == {1, 3, 5, DefaultLookback}

PatInit ==
    /\ data = <<>>
    /\ lookback = DefaultLookback
    /\ patterns = <<>>
    /\ returned = <<>>
    /\ ppc = "input"

\* The caller extends the series by one candle
AppendCandle ==
    /\ ppc = "input"
    /\ Len(data) < MaxCandles
    /\ \E c \in Candles : data' = Append(data, c)
    /\ UNCHANGED <<lookback, patterns, returned, ppc>>
    /\ UNCHANGED notPatVars

\* detectCandlePatterns(data, lb)
Detect ==
    /\ ppc = "input"
    /\ \E lb \in Lookbacks :
         /\ lookback' = lb
         /\ patterns' = scanPatterns(data, lb)
         /\ returned' = detectCandlePatterns(data, lb)
    /\ ppc' = "done"
    /\ UNCHANGED data
    /\ UNCHANGED notPatVars

PatNext == AppendCandle \/ Detect

\* Short series that may also hold a candle whose close equals its open
CandleF == Candle(112, 116, 110, 112)   \* close = open, inside the body of B
MaxShortSeries == 4

AppendAnyCandle ==
    /\ ppc = "input"
    /\ Len(data) < MaxShortSeries
    /\ \E c \in Candles \cup {CandleF} : data' = Append(data, c)
    /\ UNCHANGED <<lookback, patterns, returned, ppc>>
    /\ UNCHANGED notPatVars

ShortNext == AppendAnyCandle \/ Detect

----------------------------------------------------------------------------
(* Inputs of the divergence detector *)

\* A series of length len, flat at base except at the 0-based positions of spikes
SeriesWith(len, base, spikes) ==
    [i \in 1..len |-> IF (i - 1) \in DOMAIN spikes THEN Num(spikes[i - 1]) ELSE Num(base)]

\* An indicator output: undefined (NaN) before its warm-up threshold
WithWarmup(s, n) == [i \in 1..Len(s) |-> IF i - 1 < n THEN NaN ELSE s[i]]

\* Spikes of the given values, 8 positions apart, the first at position first
SpikesAt(first, values) ==
    [p \in {first + 8 * (k - 1) : k \in 1..Len(values)} |-> values[((p - first) \div 8) + 1]]

Reverse(s) == [i \in 1..Len(s) |-> s[Len(s) + 1 - i]]

\* Four highs falling by step from top, four lows rising by step from bottom
Falling(top, step) == <<top, top - step, top - 2 * step, top - 3 * step>>
Rising(bottom, step) == <<bottom, bottom + step, bottom + 2 * step, bottom + 3 * step>>

Shapes == {"expanding", "contracting", "up", "down"}

\* Highs from highStart, lows from lowStart, moving by step as the shape says
Profile(shape, at, highStart, lowStart, step) ==
    LET highs == IF shape \in {"expanding", "up"} THEN Rising(highStart, step)
                 ELSE Reverse(Rising(highStart, step))
        lows  == IF shape \in {"expanding", "down"} THEN Falling(lowStart, step)
                 ELSE Reverse(Falling(lowStart, step))
    IN  SpikesAt(at, highs) @@ SpikesAt(at + 1, lows)

RsiPeriod == 14
MaxLength == 46
Lengths == {24, 29, 30, 40, 44, MaxLength}

ClosesInputs ==
    {SeriesWith(len, 95, Profile(shape, 14, 100, 90, step)) :
        len \in Lengths, shape \in Shapes, step \in {4, 10}}

\* What RSI(closes, 14) may return for closes of length len: values in 0..100
RsiOutputs(len) ==
    {WithWarmup(SeriesWith(len, 50, Profile(shape, 14, 100 - 3 * step, 40, step)),
                RsiPeriod) :
        shape \in Shapes, step \in {4, 5, 10}}

\* What MACD(closes).histogram may be: values around 0, peaks at or next to the
\* price peaks, defined from the start or from the signal line's warm-up
MacdOutputs(len) ==
    {WithWarmup(SeriesWith(len, -20, Profile(shape, 14 + shift, -10, -25, 5)),
                warmup) :
        shape \in Shapes, shift \in {0, 1}, warmup \in {0, 33}}

DivIdle ==
    /\ closes = <<>>
    /\ rsiValues = <<>>
    /\ histogram = <<>>
    /\ indicatorsRun = FALSE
    /\ divergences = <<>>
    /\ dpc = "stale"

\* The component is rendered with a data prop
DivInit ==
    /\ closes \in ClosesInputs
    /\ rsiValues = <<>>
    /\ histogram = <<>>
    /\ indicatorsRun = FALSE
    /\ divergences = <<>>
    /\ dpc = "stale"

\* The useMemo callback runs for the data prop
Recompute ==
    /\ dpc = "stale"
    /\ IF tooShort(closes)
       THEN /\ divergences' = divergencesMemo(closes, <<>>, <<>>)
            /\ UNCHANGED <<rsiValues, histogram, indicatorsRun>>
       ELSE \E rsi \in RsiOutputs(Len(closes)), hist \in MacdOutputs(Len(closes)) :
                /\ rsiValues' = rsi
                /\ histogram' = hist
                /\ indicatorsRun' = TRUE
                /\ divergences' = divergencesMemo(closes, rsi, hist)
    /\ dpc' = "fresh"
    /\ UNCHANGED closes
    /\ UNCHANGED notDivVars

DivNext == Recompute

----------------------------------------------------------------------------
(* Inputs of detectDivergences called on its own *)

\* Three extrema rise, fall, or start level, as distances from the flat base
Heights == {<<10, 20, 30>>, <<30, 20, 10>>, <<10, 10, 20>>}

\* Index distances between neighbouring price extrema: one above the larger limit
Gaps == {6, 9, 26}

\* Where an oscillator extremum lies relative to its price extremum
Offsets == {-7, 0, 8}

FirstExtremum == 12
DetectLength == 78
Limits == {10, MaxPeakDistance}
PeakWindows == {3, PeakLookback}

\* Spikes of the heights h at the positions at, up for highs and down for lows
Extrema(base, kind, at, h) ==
    [p \in {at[k] : k \in 1..3} |->
        LET k == CHOOSE j \in 1..3 : at[j] = p /\ \A m \in 1..3 : at[m] = p => m <= j
        IN  IF kind = "high" THEN base + h[k] ELSE base - h[k]]

PricePositions(g1, g2) == <<FirstExtremum, FirstExtremum + g1, FirstExtremum + g1 + g2>>

PriceInputs(g1, g2) ==
    {SeriesWith(DetectLength, 100, Extrema(100, kind, PricePositions(g1, g2), h)) :
        kind \in {"high", "low"}, h \in Heights}

OscInputs(g1, g2) ==
    {SeriesWith(DetectLength, 50,
                Extrema(50, kind, <<PricePositions(g1, g2)[1] + o1,
                                    PricePositions(g1, g2)[2] + o2,
                                    PricePositions(g1, g2)[3] + o3>>, h)) :
        kind \in {"high", "low"}, o1 \in Offsets, o2 \in Offsets, o3 \in Offsets,
        h \in Heights}

DetIdle ==
    /\ priceSeries = <<>>
    /\ oscSeries = <<>>
    /\ peakWindow = PeakLookback
    /\ distanceLimit = MaxPeakDistance
    /\ detected = <<>>
    /\ xpc = "input"

\* A caller holds a price series and an oscillator series of the same length
DetInit ==
    /\ \E g1 \in Gaps, g2 \in Gaps :
          /\ priceSeries \in PriceInputs(g1, g2)
          /\ oscSeries \in OscInputs(g1, g2)
    /\ peakWindow = PeakLookback
    /\ distanceLimit = MaxPeakDistance
    /\ detected = <<>>
    /\ xpc = "input"

\* detectDivergences(prices, indicatorValues, 'RSI', lookback, maxDistance)
DetectCall ==
    /\ xpc = "input"
    /\ \E w \in PeakWindows, limit \in Limits :
          /\ peakWindow' = w
          /\ distanceLimit' = limit
          /\ detected' = detectDivergences(priceSeries, oscSeries, "RSI", w, limit)
    /\ xpc' = "done"
    /\ UNCHANGED <<priceSeries, oscSeries>>
    /\ UNCHANGED notDetVars

DetNext == DetectCall

----------------------------------------------------------------------------
(* Inputs of findPeaks *)

MaxSeries == 6
SeriesValues == {NaN, Num(1), Num(2), Num(3)}
Windows == {0, 1, 2}

PkInit ==
    /\ series = <<>>
    /\ window = PeakLookback
    /\ peaks = <<>>
    /\ kpc = "input"

\* The caller extends the series by one value, defined or not
PushValue ==
    /\ kpc = "input"
    /\ Len(series) < MaxSeries
    /\ \E v \in SeriesValues : series' = Append(series, v)
    /\ UNCHANGED <<window, peaks, kpc>>
    /\ UNCHANGED notPkVars

\* findPeaks(series, w)
FindPeaks ==
    /\ kpc = "input"
    /\ \E w \in Windows :
         /\ window' = w
         /\ peaks' = findPeaks(series, w)
    /\ kpc' = "done"
    /\ UNCHANGED series
    /\ UNCHANGED notPkVars

PkNext == PushValue \/ FindPeaks

----------------------------------------------------------------------------
(* Correlation engine *)

\* A returned coefficient is kept exactly, as num / sqrt(den2) with den2 > 0;
\* den2 = 0 stands for the NaN of a division 0 / 0.
Coefficient(n, d2) == [num |-> n, den2 |-> d2]
Zero == Coefficient(0, 1)

\* n * (s[i] - mean(s)) for the n values of s: the deviations, scaled by n so that
\* they stay integers (the factor cancels between numerator and denominator)
Deviations(s) ==
    LET n == Len(s)
        sum == SumSeq(s)
    IN  [i \in 1..n |-> n * s[i] - sum]

Products(x, y) == [i \in DOMAIN x |-> x[i] * y[i]]

tooFew(n) == n < 5

\* a.slice(-n)
lastNHead(s, n) == SliceRange(s, 0, n)
lastN(s, n) == SliceFrom(s, -n)

\* denominator === 0 ? 0 : numerator / denominator, denominator = sqrt(denomA * denomB)
quotientUnguarded(numerator, denomA, denomB) == Coefficient(numerator, denomA * denomB)
quotientByFirst(numerator, denomA, denomB) ==
    IF denomA * denomB = 0 THEN Zero ELSE Coefficient(numerator, denomA * denomA)
quotientRootOfFirst(numerator, denomA, denomB) ==
    IF denomA * denomB = 0 THEN Zero ELSE Coefficient(numerator, denomA * denomB * denomB)
quotient(numerator, denomA, denomB) ==
    IF denomA * denomB = 0 THEN Zero ELSE Coefficient(numerator, denomA * denomB)

\* The covariance numerator / n of the unscaled deviations, left unnormalised
covarianceOnly(a, b) ==
    LET n == Min(Len(a), Len(b))
    IN  IF tooFew(n) THEN Zero
        ELSE LET da == Deviations(lastN(a, n))
                 db == Deviations(lastN(b, n))
             IN  IF SumSeq(Products(da, da)) * SumSeq(Products(db, db)) = 0 THEN Zero
                 ELSE Coefficient(SumSeq(Products(da, db)), n * n * n * n * n * n)

calculateCorrelation(a, b) ==
    LET n == Min(Len(a), Len(b))
    IN  IF tooFew(n) THEN Zero
        ELSE LET da == Deviations(lastN(a, n))
                 db == Deviations(lastN(b, n))
             IN  quotient(SumSeq(Products(da, db)),
                          SumSeq(Products(da, da)),
                          SumSeq(Products(db, db)))

----------------------------------------------------------------------------
(* Inputs of the correlation engine *)

MaxReturns == 6
ReturnValues == {-1, 2}

CorInit ==
    /\ seriesA = <<>>
    /\ seriesB = <<>>
    /\ corr = Zero
    /\ cpc = "input"

\* The caller extends the first return series
PushA ==
    /\ cpc = "input"
    /\ Len(seriesA) < MaxReturns
    /\ \E v \in ReturnValues : seriesA' = Append(seriesA, v)
    /\ UNCHANGED <<seriesB, corr, cpc>>
    /\ UNCHANGED notCorVars

\* The caller extends the second return series
PushB ==
    /\ cpc = "input"
    /\ Len(seriesB) < MaxReturns
    /\ \E v \in ReturnValues : seriesB' = Append(seriesB, v)
    /\ UNCHANGED <<seriesA, corr, cpc>>
    /\ UNCHANGED notCorVars

\* calculateCorrelation(seriesA, seriesB)
Correlate ==
    /\ cpc = "input"
    /\ corr' = calculateCorrelation(seriesA, seriesB)
    /\ cpc' = "done"
    /\ UNCHANGED <<seriesA, seriesB>>
    /\ UNCHANGED notCorVars

CorNext == PushA \/ PushB \/ Correlate

----------------------------------------------------------------------------
(* Treemap layout engine (MarketHeatmap) *)

RECURSIVE GCD(_, _)
GCD(a, b) == IF b = 0 THEN a ELSE GCD(b, a % b)

\* A JavaScript number of the layout: a rational in lowest terms, NaN, or an
\* infinity (its sign in num). The sign of a zero is not kept.
Fin(n, d) ==
    LET g == GCD(Abs(n), Abs(d))
        s == IF d < 0 THEN -1 ELSE 1
    IN  [kind |-> "finite", num |-> (s * n) \div g, den |-> (s * d) \div g]
NotANumber == [kind |-> "NaN", num |-> 0, den |-> 1]
Inf(sign) == [kind |-> "Infinity", num |-> sign, den |-> 1]

Sgn(x) == IF x > 0 THEN 1 ELSE IF x < 0 THEN -1 ELSE 0
IsFinite(a) == a.kind = "finite"
IsNotANumber(a) == a.kind = "NaN"

\* a / b
JsDiv(a, b) ==
    IF IsNotANumber(a) \/ IsNotANumber(b) THEN NotANumber
    ELSE IF ~IsFinite(a) THEN (IF ~IsFinite(b) THEN NotANumber
                              ELSE Inf(a.num * (IF b.num < 0 THEN -1 ELSE 1)))
    ELSE IF ~IsFinite(b) THEN Fin(0, 1)
    ELSE IF b.num = 0 THEN (IF a.num = 0 THEN NotANumber ELSE Inf(Sgn(a.num)))
    ELSE Fin(a.num * b.den, a.den * b.num)

\* a * b
JsMul(a, b) ==
    IF IsNotANumber(a) \/ IsNotANumber(b) THEN NotANumber
    ELSE IF ~IsFinite(a) \/ ~IsFinite(b)
         THEN (IF a.num = 0 \/ b.num = 0 THEN NotANumber ELSE Inf(Sgn(a.num) * Sgn(b.num)))
    ELSE Fin(a.num * b.num, a.den * b.den)

\* a + b
JsAdd(a, b) ==
    IF IsNotANumber(a) \/ IsNotANumber(b) THEN NotANumber
    ELSE IF ~IsFinite(a) THEN (IF ~IsFinite(b) /\ b.num # a.num THEN NotANumber ELSE a)
    ELSE IF ~IsFinite(b) THEN b
    ELSE Fin(a.num * b.den + b.num * a.den, a.den * b.den)

\* a - b
JsSub(a, b) == JsAdd(a, [b EXCEPT !.num = -b.num])

Item(sym, wt, chg, nm, pr, cap) ==
    [symbol |-> sym, weight |-> wt, change |-> chg, name |-> nm, price |-> pr,
     marketCap |-> cap]

\* result.push({ x, y, w, h, symbol: item.symbol, change: item.change, ... })
Rect(x, y, w, h, item) ==
    [x |-> x, y |-> y, w |-> w, h |-> h, symbol |-> item.symbol, change |-> item.change,
     name |-> item.name, price |-> item.price, marketCap |-> item.marketCap]

totalWeightOf(its) == SumSeq([k \in DOMAIN its |-> its[k].weight])

\* items.length === 0 || containerWidth <= 0 || containerHeight <= 0
noArea(its, width, height) == its = <<>> \/ width <= 0 \/ height <= 0

\* totalWeight <= 0
noWeightStrict(totalWeight) == totalWeight < 0
noWeight(totalWeight) == totalWeight <= 0

\* remainingWeight -= item.weight
remainingWeightKept(remainingWeight, weight) == remainingWeight
remainingWeightAfter(remainingWeight, weight) == remainingWeight - weight

\* The locals of squarify before the loop
LoopStart(width, height, totalWeight) ==
    [x |-> Fin(0, 1), y |-> Fin(0, 1),
     remainingWidth |-> Fin(width, 1), remainingHeight |-> Fin(height, 1),
     remainingWeight |-> totalWeight, horizontal |-> (width >= height),
     result |-> <<>>]

\* One iteration of the loop, for items[i] (0-based i)
LoopBody(st, item, i) ==
    LET ratio == JsDiv(Fin(item.weight, 1), Fin(st.remainingWeight, 1))
        w     == IF st.horizontal THEN JsMul(st.remainingWidth, ratio) ELSE st.remainingWidth
        h     == IF st.horizontal THEN st.remainingHeight ELSE JsMul(st.remainingHeight, ratio)
    IN  [x |-> IF st.horizontal THEN JsAdd(st.x, w) ELSE st.x,
         y |-> IF st.horizontal THEN st.y ELSE JsAdd(st.y, h),
         remainingWidth  |-> IF st.horizontal THEN JsSub(st.remainingWidth, w)
                             ELSE st.remainingWidth,
         remainingHeight |-> IF st.horizontal THEN st.remainingHeight
                             ELSE JsSub(st.remainingHeight, h),
         remainingWeight |-> remainingWeightAfter(st.remainingWeight, item.weight),
         horizontal |-> IF i % 3 = 2 THEN ~st.horizontal ELSE st.horizontal,
         result |-> Append(st.result, Rect(st.x, st.y, w, h, item))]

RECURSIVE LoopFrom(_, _, _)
LoopFrom(st, its, i) ==
    IF i >= Len(its) THEN st
    ELSE LoopFrom(LoopBody(st, its[i + 1], i), its, i + 1)

squarify(its, width, height) ==
    IF noArea(its, width, height) THEN <<>>
    ELSE IF noWeight(totalWeightOf(its)) THEN <<>>
    ELSE LoopFrom(LoopStart(width, height, totalWeightOf(its)), its, 0).result

\* Math.log10 of a power of ten
RECURSIVE Log10(_)
Log10(x) == IF x = 1 THEN 0 ELSE 1 + Log10(x \div 10)

\* a.symbol.toUpperCase(), for the symbols of the model
ToUpperCase(sym) ==
    CASE sym = "btc" -> "BTC" [] sym = "doge" -> "DOGE"
      [] sym = "nil" -> "NIL" [] OTHER -> sym

\* The treemapItems memo (change: x || 0 leaves a number as it is)
treemapItems(assets) ==
    [k \in DOMAIN assets |->
        Item(ToUpperCase(assets[k].symbol),
             Log10(Max(assets[k].market_cap, 1)),
             assets[k].price_change_percentage_24h,
             assets[k].name, assets[k].current_price, assets[k].market_cap)]

CONTAINER_WIDTH == 900
CONTAINER_HEIGHT == 500

----------------------------------------------------------------------------
(* Inputs of the treemap layout engine *)

MaxItems == 8
Weights == {-1, 1, 2}
Containers == {<<6, 4>>, <<4, 6>>, <<0, 4>>, <<6, -1>>}
Symbols == <<"A", "B", "C", "D", "E", "F", "G", "H", "I", "J">>

Asset(sym, nm, pr, chg, cap) ==
    [symbol |-> sym, name |-> nm, current_price |-> pr,
     price_change_percentage_24h |-> chg, market_cap |-> cap]

\* Market caps are powers of ten, so that the log10 weights are exact; "nil" has
\* a market cap of 0 and so the weight log10(1) = 0
Assets ==
    {Asset("btc", "Bitcoin", 60000, 2, 1000000000), Asset("doge", "Dogecoin", 1, -1, 1000000),
     Asset("nil", "Nil", 0, 0, 0)}

MapInit ==
    /\ sortedAssets = <<>>
    /\ items = <<>>
    /\ containerWidth = 0
    /\ containerHeight = 0
    /\ layout = <<>>
    /\ tpc = "input"

\* A caller extends the item list of a direct call
PushItem ==
    /\ tpc = "input" /\ sortedAssets = <<>>
    /\ Len(items) < MaxItems
    /\ \E wt \in Weights :
         items' = Append(items, Item(Symbols[Len(items) + 1], wt, 0, "", 0, 0))
    /\ UNCHANGED <<sortedAssets, containerWidth, containerHeight, layout, tpc>>
    /\ UNCHANGED notMapVars

\* squarify(items, width, height)
Squarify ==
    /\ tpc = "input" /\ sortedAssets = <<>>
    /\ \E c \in Containers :
         /\ containerWidth' = c[1]
         /\ containerHeight' = c[2]
         /\ layout' = squarify(items, c[1], c[2])
    /\ tpc' = "done"
    /\ UNCHANGED <<sortedAssets, items>>
    /\ UNCHANGED notMapVars

\* The heatmap's asset list grows by one asset (in whatever order sortBy gives);
\* the treemapItems memo follows
PushAsset ==
    /\ tpc = "input" /\ Len(items) = Len(sortedAssets)
    /\ Len(sortedAssets) < MaxItems
    /\ \E a \in Assets :
         /\ sortedAssets' = Append(sortedAssets, a)
         /\ items' = treemapItems(Append(sortedAssets, a))
    /\ UNCHANGED <<containerWidth, containerHeight, layout, tpc>>
    /\ UNCHANGED notMapVars

\* The treemapLayout memo: squarify(treemapItems, CONTAINER_WIDTH, CONTAINER_HEIGHT)
RenderHeatmap ==
    /\ tpc = "input" /\ sortedAssets # <<>>
    /\ containerWidth' = CONTAINER_WIDTH
    /\ containerHeight' = CONTAINER_HEIGHT
    /\ layout' = squarify(items, CONTAINER_WIDTH, CONTAINER_HEIGHT)
    /\ tpc' = "done"
    /\ UNCHANGED <<sortedAssets, items>>
    /\ UNCHANGED notMapVars

MapNext == PushItem \/ Squarify \/ PushAsset \/ RenderHeatmap

----------------------------------------------------------------------------
(* Correlation matrix (CorrelationMatrix component) *)

CRYPTO_SYMBOLS == <<"BTC", "ETH", "SOL", "XRP", "SUI">>

One == Coefficient(1, 1)

\* corr: rowSymbol === colSymbol ? 1 : calculateCorrelation(returns[rowSymbol], returns[colSymbol])
cellComputed(rets, rowSymbol, colSymbol) ==
    calculateCorrelation(rets[rowSymbol], rets[colSymbol])
cellOf(rets, rowSymbol, colSymbol) ==
    IF rowSymbol = colSymbol THEN One
    ELSE calculateCorrelation(rets[rowSymbol], rets[colSymbol])

\* The matrix memo; returns[s] is truthy exactly when the record has the key s
matrixOf(rets) ==
    LET has(sym) == sym \in DOMAIN rets
        symbols  == SelectSeq(CRYPTO_SYMBOLS, has)
    IN  [r \in DOMAIN symbols |->
            [row  |-> symbols[r],
             cols |-> [c \in DOMAIN symbols |->
                          [symbol |-> symbols[c],
                           corr   |-> cellOf(rets, symbols[r], symbols[c])]]]]

\* The record without keys: {}
NoReturns == [sym \in {} |-> <<>>]

\* The daily return series a fetch may yield (scaled to integers): too short for a
\* correlation, constant, and two varying ones of different lengths
ReturnSeries ==
    {<<2, -1, 2>>, <<2, 2, 2, 2, 2>>, <<2, -1, -1, 2, -1, 2>>, <<-1, 2, -1, -1, 2>>}

MatInit ==
    /\ isOpen = FALSE
    /\ loading = TRUE
    /\ allReturns = NoReturns
    /\ fetched = 0
    /\ returns = NoReturns
    /\ matrix = matrixOf(NoReturns)
    /\ mpc = "closed"

\* The panel is opened: the effect starts fetchData
Open ==
    /\ mpc = "closed"
    /\ isOpen' = TRUE
    /\ loading' = TRUE
    /\ allReturns' = NoReturns
    /\ fetched' = 0
    /\ mpc' = "fetching"
    /\ UNCHANGED <<returns, matrix>>
    /\ UNCHANGED notMatVars

\* One round of the loop over CRYPTO_SYMBOLS: the fetch yields a series of daily
\* returns, or the symbol is skipped (the fetch threw, or gave at most one candle)
FetchSymbol ==
    /\ mpc = "fetching" /\ fetched < Len(CRYPTO_SYMBOLS)
    /\ \/ \E dailyReturns \in ReturnSeries :
            allReturns' = (CRYPTO_SYMBOLS[fetched + 1] :> dailyReturns) @@ allReturns
       \/ UNCHANGED allReturns
    /\ fetched' = fetched + 1
    /\ UNCHANGED <<isOpen, loading, returns, matrix, mpc>>
    /\ UNCHANGED notMatVars

\* setReturns(allReturns); setLoading(false); the matrix memo follows the new returns
Publish ==
    /\ mpc = "fetching" /\ fetched = Len(CRYPTO_SYMBOLS)
    /\ returns' = allReturns
    /\ loading' = FALSE
    /\ matrix' = matrixOf(allReturns)
    /\ mpc' = "shown"
    /\ UNCHANGED <<isOpen, allReturns, fetched>>
    /\ UNCHANGED notMatVars

MatNext == Open \/ FetchSymbol \/ Publish

----------------------------------------------------------------------------
(* The PatternDetector component *)

PatternLookback == 30
RecentCount == 5

\* if (data.length > 3)
worthDetecting(d) == Len(d) > 3

\* const recentPatterns = patterns.slice(-5)
recentPatterns(ps) == SliceFrom(ps, -RecentCount)

\* patterns.length > 5 && <button ...>
hasShowMore(ps) == Len(ps) > 5

\* Candles cycling through block, n of them
CycleOf(block, n) == [i \in 1..n |-> block[((i - 1) % Len(block)) + 1]]

DataProps ==
    {<<>>,
     <<CandleA, CandleB>>,
     <<CandleA, CandleD, CandleM>>,
     <<CandleA, CandleB, CandleD, CandleM>>,
     CycleOf(<<CandleA, CandleB, CandleD, CandleM>>, 31),
     CycleOf(<<CandleA, CandleB, CandleD, CandleM>>, 32)}

CmpIdle ==
    /\ propData = <<>>
    /\ storedPatterns = <<>>
    /\ expanded = FALSE
    /\ shownPatterns = <<>>
    /\ renderDue = FALSE
    /\ effectDue = FALSE

\* The component is mounted with a data prop: useState([]), useState(false)
CmpInit ==
    /\ propData \in DataProps
    /\ storedPatterns = <<>>
    /\ expanded = FALSE
    /\ shownPatterns = <<>>
    /\ renderDue = TRUE
    /\ effectDue = TRUE

\* The function body runs: an empty list returns the placeholder; otherwise
\* (expanded ? patterns : recentPatterns).reverse() reverses that array in place,
\* which is the state's own array when expanded, and maps it to rows
Render ==
    /\ IF Len(storedPatterns) = 0
       THEN /\ shownPatterns' = <<>>
            /\ UNCHANGED storedPatterns
       ELSE IF expanded
       THEN /\ storedPatterns' = Reverse(storedPatterns)
            /\ shownPatterns' = Reverse(storedPatterns)
       ELSE /\ shownPatterns' = Reverse(recentPatterns(storedPatterns))
            /\ UNCHANGED storedPatterns
    /\ renderDue' = FALSE
    /\ UNCHANGED <<propData, expanded, effectDue>>
    /\ UNCHANGED notCmpVars

\* The effect of [data] runs after the render that followed a change of data
DetectEffect ==
    /\ effectDue /\ ~renderDue
    /\ IF worthDetecting(propData)
       THEN /\ storedPatterns' = detectCandlePatterns(propData, PatternLookback)
            /\ renderDue' = TRUE
       ELSE UNCHANGED <<storedPatterns, renderDue>>
    /\ effectDue' = FALSE
    /\ UNCHANGED <<propData, expanded, shownPatterns>>
    /\ UNCHANGED notCmpVars

\* onClick={() => setExpanded(!expanded)} of the button the last render showed
ToggleExpanded ==
    /\ ~renderDue /\ ~effectDue
    /\ hasShowMore(storedPatterns)
    /\ expanded' = ~expanded
    /\ renderDue' = TRUE
    /\ UNCHANGED <<propData, storedPatterns, shownPatterns, effectDue>>
    /\ UNCHANGED notCmpVars

\* The parent passes another data array
ChangeData ==
    /\ ~effectDue
    /\ propData' \in DataProps
    /\ renderDue' = TRUE
    /\ effectDue' = TRUE
    /\ UNCHANGED <<storedPatterns, expanded, shownPatterns>>
    /\ UNCHANGED notCmpVars

CmpNext == Render \/ DetectEffect \/ ToggleExpanded \/ ChangeData

----------------------------------------------------------------------------
(* The MultiTimeframe component *)

TIMEFRAMES == {7, 30, 90}

TfSymbols == {"BTC", "ETH"}

\* What one timeframe's request may do: return candles, return none, or throw
Outcomes == {"data", "empty", "failed"}

\* The candles the API returns for a symbol, each reduced to the asset it is of
candlesOf(sym, outcome) == IF outcome = "data" THEN <<sym, sym>> ELSE <<>>

NoTimeframes == [d \in {} |-> 0]

\* initialState[tf.days] = { ..., data: [], loading: true, error: null }
initialState == [d \in TIMEFRAMES |-> [data |-> <<>>, loading |-> TRUE, error |-> "null"]]

\* newState[tf.days] for a fulfilled or a rejected result
newState(sym, results) ==
    [d \in TIMEFRAMES |->
        IF results[d] # "failed"
        THEN [data |-> candlesOf(sym, results[d]), loading |-> FALSE,
              error |-> IF Len(candlesOf(sym, results[d])) = 0 THEN "No data" ELSE "null"]
        ELSE [data |-> <<>>, loading |-> FALSE, error |-> "Failed to load"]]

\* Object.values(timeframeData).some(t => t.loading)
isLoading(tfd) == \E d \in DOMAIN tfd : tfd[d].loading

\* fetchedRef.current === symbol && Object.keys(timeframeData).length > 0
alreadyFetched(ref, sym, tfd) == ref = sym /\ Cardinality(DOMAIN tfd) > 0

\* Whether the effect of [isOpen, symbol] gets past its two early returns
startsFetch(open, ref, sym, tfd) == open /\ ~alreadyFetched(ref, sym, tfd)

\* return () => { cancelled = true }, run for the earlier run of the effect
cleanedUp(fs) == {[f EXCEPT !.cancelled = TRUE] : f \in fs}

\* if (cancelled) return; ... setTimeframeData(newState)
settledAlways(f, results, tfd) == newState(f.symbol, results)

settled(f, results, tfd) ==
    IF f.cancelled THEN tfd ELSE newState(f.symbol, results)

TfIdle ==
    /\ tfSymbol = "BTC"
    /\ panelOpen = FALSE
    /\ timeframeData = NoTimeframes
    /\ fetchedRef = ""
    /\ inflight = {}
    /\ loadedFor = ""

\* The component is mounted closed: both effects ran and changed nothing
TfInit ==
    /\ tfSymbol \in TfSymbols
    /\ panelOpen = FALSE
    /\ timeframeData = NoTimeframes
    /\ fetchedRef = ""
    /\ inflight = {}
    /\ loadedFor = ""

\* onClick={() => setIsOpen(!isOpen)}, the cleanup of the fetch effect and its
\* next run up to the first await
ToggleOpen ==
    LET starts == startsFetch(~panelOpen, fetchedRef, tfSymbol, timeframeData)
    IN  /\ panelOpen' = ~panelOpen
        /\ fetchedRef' = IF starts THEN tfSymbol ELSE fetchedRef
        /\ timeframeData' = IF starts THEN initialState ELSE timeframeData
        /\ inflight' = cleanedUp(inflight)
                          \cup (IF starts THEN {[symbol |-> tfSymbol, cancelled |-> FALSE]}
                                 ELSE {})
        /\ UNCHANGED <<tfSymbol, loadedFor>>
        /\ UNCHANGED notTfVars

\* The parent passes another symbol: the cleanup of the fetch effect, its next
\* run up to the first await, then the reset effect
ChangeSymbol ==
    \E sym \in TfSymbols \ {tfSymbol} :
        LET starts == startsFetch(panelOpen, fetchedRef, sym, timeframeData)
            ref == IF starts THEN sym ELSE fetchedRef
        IN  /\ tfSymbol' = sym
            /\ fetchedRef' = ref
            /\ timeframeData' = IF ref # sym THEN NoTimeframes
                                 ELSE IF starts THEN initialState
                                 ELSE timeframeData
            /\ inflight' = cleanedUp(inflight)
                              \cup (IF starts THEN {[symbol |-> sym, cancelled |-> FALSE]}
                                     ELSE {})
            /\ UNCHANGED <<panelOpen, loadedFor>>
            /\ UNCHANGED notTfVars

\* Promise.allSettled resolves for one fetchAll call: lines 85-108
FetchSettles ==
    \E f \in inflight, results \in [TIMEFRAMES -> Outcomes] :
        /\ inflight' = inflight \ {f}
        /\ timeframeData' = settled(f, results, timeframeData)
        /\ loadedFor' = IF f.cancelled THEN loadedFor ELSE f.symbol
        /\ UNCHANGED <<tfSymbol, panelOpen, fetchedRef>>
        /\ UNCHANGED notTfVars

TfNext == ToggleOpen \/ ChangeSymbol \/ FetchSettles

----------------------------------------------------------------------------
(* The LongShortRatio component *)

\* The keys of BINANCE_SYMBOLS
BINANCE_SYMBOLS == {"BTC", "ETH", "SOL", "XRP", "SUI", "DOGE", "ADA", "AVAX", "LINK", "DOT"}

LsrSymbols == {"btc", "ETH", "PEPE"}

MaxPending == 2

\* BINANCE_SYMBOLS[symbol.toUpperCase()] !== undefined
isSupported(sym) == ToUpperCase(sym) \in BINANCE_SYMBOLS

\* What fetchLSR(symbol) resolves to: the rows of the symbol's market, each reduced
\* to that market, or [] when the response is not ok or the request throws
fetchLSR(sym, ok) ==
    IF ~isSupported(sym) THEN <<>>
    ELSE IF ok THEN <<ToUpperCase(sym), ToUpperCase(sym)>>
    ELSE <<>>

NoLoads == [sym \in LsrSymbols |-> 0]

\* if (!isSupported || !isOpen) { setLoading(false); return; }
effectLoads(sym, open) == isSupported(sym) /\ open

LsrIdle ==
    /\ lsrSymbol = "btc"
    /\ lsrOpen = FALSE
    /\ lsrData = <<>>
    /\ lsrLoading = FALSE
    /\ pendingLoads = NoLoads
    /\ pollFor = ""

\* The component is mounted closed: the effect ran and called setLoading(false)
LsrInit ==
    /\ lsrSymbol \in LsrSymbols
    /\ lsrOpen = FALSE
    /\ lsrData = <<>>
    /\ lsrLoading = FALSE
    /\ pendingLoads = NoLoads
    /\ pollFor = ""

\* The cleanup clearInterval(interval) and the next run of the effect for the
\* symbol and isOpen of the new render, up to the await in load()
LsrEffect(sym, open) ==
    IF effectLoads(sym, open)
    THEN /\ pendingLoads[sym] < MaxPending
         /\ lsrLoading' = TRUE
         /\ pendingLoads' = [pendingLoads EXCEPT ![sym] = @ + 1]
         /\ pollFor' = sym
    ELSE /\ lsrLoading' = FALSE
         /\ pollFor' = ""
         /\ UNCHANGED pendingLoads

\* onClick={() => setIsOpen(!isOpen)} of the button, shown for a supported symbol
LsrToggle ==
    /\ isSupported(lsrSymbol)
    /\ lsrOpen' = ~lsrOpen
    /\ LsrEffect(lsrSymbol, ~lsrOpen)
    /\ UNCHANGED <<lsrSymbol, lsrData>>
    /\ UNCHANGED notLsrVars

\* The parent passes another symbol
LsrChangeSymbol ==
    /\ \E sym \in LsrSymbols \ {lsrSymbol} :
          /\ lsrSymbol' = sym
          /\ LsrEffect(sym, lsrOpen)
    /\ UNCHANGED <<lsrOpen, lsrData>>
    /\ UNCHANGED notLsrVars

\* setInterval(load, 60000) fires: load() of the effect run that set it
PollTick ==
    /\ pollFor # ""
    /\ pendingLoads[pollFor] < MaxPending
    /\ lsrLoading' = TRUE
    /\ pendingLoads' = [pendingLoads EXCEPT ![pollFor] = @ + 1]
    /\ UNCHANGED <<lsrSymbol, lsrOpen, lsrData, pollFor>>
    /\ UNCHANGED notLsrVars

\* fetchLSR resolves for one load(): setData(result); setLoading(false)
LoadResolves ==
    /\ \E sym \in LsrSymbols, ok \in BOOLEAN :
          /\ pendingLoads[sym] > 0
          /\ lsrData' = fetchLSR(sym, ok)
          /\ pendingLoads' = [pendingLoads EXCEPT ![sym] = @ - 1]
    /\ lsrLoading' = FALSE
    /\ UNCHANGED <<lsrSymbol, lsrOpen, pollFor>>
    /\ UNCHANGED notLsrVars

LsrNext == LsrToggle \/ LsrChangeSymbol \/ PollTick \/ LoadResolves

----------------------------------------------------------------------------
(* The MultiChartView component *)

\* The symbols of getSupportedAssets() that the model uses
ChartSymbols == {"BTC", "ETH", "SOL", "XRP", "ADA"}

\* The initialSymbols prop: the default, a single symbol, and more than four
InitialSymbolLists ==
    {<<"BTC", "ETH">>, <<"SOL">>, <<"BTC", "ETH", "SOL", "XRP", "ADA">>}

\* What one symbol's request may do: return candles, or throw
ChartOutcomes == {"data", "failed"}

includes(list, sym) == \E k \in DOMAIN list : list[k] = sym

\* addSymbol: the list passed to setSelectedSymbols, or the list itself after return
addSymbolUpToFive(selected, sym) ==
    IF Len(selected) > 4 \/ includes(selected, sym) THEN selected
    ELSE selected \o <<sym>>

addSymbol(selected, sym) ==
    IF Len(selected) >= 4 \/ includes(selected, sym) THEN selected
    ELSE selected \o <<sym>>

\* removeSymbol: the list passed to setSelectedSymbols, or the list itself after return
removeSymbol(selected, sym) ==
    IF Len(selected) <= 1 THEN selected
    ELSE SelectSeq(selected, LAMBDA other : other # sym)

\* removeSymbol: the chartData after delete next[symbol], or chartData after return
chartDataWithout(selected, cache, sym) ==
    IF Len(selected) <= 1 THEN cache
    ELSE [other \in DOMAIN cache \ {sym} |-> cache[other]]

\* The symbols for which a run of the effect starts a fetch
symbolsToLoad(open, selected, cache) ==
    IF ~open THEN {}
    ELSE {selected[k] : k \in DOMAIN selected} \ DOMAIN cache

NoCharts == [sym \in {} |-> <<>>]

McvIdle ==
    /\ viewOpen = FALSE
    /\ selectedSymbols = <<"BTC", "ETH">>
    /\ chartData = NoCharts
    /\ chartLoading = {}
    /\ chartPending = {}

\* The component is mounted closed: useState(initialSymbols.slice(0, 4))
McvInit ==
    /\ viewOpen = FALSE
    /\ selectedSymbols \in {SliceRange(list, 0, 4) : list \in InitialSymbolLists}
    /\ chartData = NoCharts
    /\ chartLoading = {}
    /\ chartPending = {}

\* A run of the effect of [isOpen, selectedSymbols] up to the awaits, for the
\* isOpen, selectedSymbols and chartData of the render it follows
LoadEffect(open, selected, cache) ==
    /\ chartLoading' = chartLoading \cup symbolsToLoad(open, selected, cache)
    /\ chartPending' = chartPending \cup symbolsToLoad(open, selected, cache)

\* The parent opens or closes the view
SetOpen ==
    /\ viewOpen' = ~viewOpen
    /\ LoadEffect(~viewOpen, selectedSymbols, chartData)
    /\ UNCHANGED <<selectedSymbols, chartData>>
    /\ UNCHANGED notMcvVars

\* addSymbol(symbol) of a rendered view, then the effect if the list changed
AddSymbol ==
    /\ viewOpen
    /\ \E sym \in ChartSymbols :
          /\ selectedSymbols' = addSymbol(selectedSymbols, sym)
          /\ IF addSymbol(selectedSymbols, sym) # selectedSymbols
             THEN LoadEffect(viewOpen, addSymbol(selectedSymbols, sym), chartData)
             ELSE UNCHANGED <<chartLoading, chartPending>>
    /\ UNCHANGED <<viewOpen, chartData>>
    /\ UNCHANGED notMcvVars

\* removeSymbol(symbol) of a rendered view, then the effect if it did not return early
RemoveSymbol ==
    /\ viewOpen
    /\ \E sym \in ChartSymbols :
          /\ selectedSymbols' = removeSymbol(selectedSymbols, sym)
          /\ chartData' = chartDataWithout(selectedSymbols, chartData, sym)
          /\ IF Len(selectedSymbols) > 1
             THEN LoadEffect(viewOpen, removeSymbol(selectedSymbols, sym),
                             chartDataWithout(selectedSymbols, chartData, sym))
             ELSE UNCHANGED <<chartLoading, chartPending>>
    /\ UNCHANGED viewOpen
    /\ UNCHANGED notMcvVars

\* One callback's fetch resolves with candles or throws: lines 395-399
ChartFetchSettles ==
    /\ \E sym \in ChartSymbols, outcome \in ChartOutcomes :
          /\ sym \in chartPending
          /\ chartPending' = chartPending \ {sym}
          /\ chartData' = IF outcome = "failed" THEN chartData
                           ELSE [other \in DOMAIN chartData \cup {sym} |->
                                    IF other = sym THEN candlesOf(sym, outcome)
                                    ELSE chartData[other]]
          /\ chartLoading' = chartLoading \ {sym}
    /\ UNCHANGED <<viewOpen, selectedSymbols>>
    /\ UNCHANGED notMcvVars

McvNext == SetOpen \/ AddSymbol \/ RemoveSymbol \/ ChartFetchSettles

----------------------------------------------------------------------------
(* The analyses memo of MultiTimeframe, for one timeframe *)

\* a > b of two numbers: false when either is NaN
gt(a, b) == ~isNaN(a) /\ ~isNaN(b) /\ a.v > b.v

MinAnalysed == 14

\* !tfData || tfData.loading || tfData.data.length < 14
notAnalysed(n, isLoadingEntry) == isLoadingEntry \/ n < MinAnalysed

\* lastPrice > lastSma ? 'above' : 'below'
smaSignalOf(price, sma) == IF gt(price, sma) THEN "above" ELSE "below"

\* !isNaN(lastHistogram) && lastHistogram > 0 ? 'bullish' : 'bearish'
macdSignalOf(hist) == IF ~isNaN(hist) /\ gt(hist, Num(0)) THEN "bullish" ELSE "bearish"

signalsOf(price, sma, hist, rsi) ==
    <<IF smaSignalOf(price, sma) = "above" THEN 1 ELSE -1,
      IF macdSignalOf(hist) = "bullish" THEN 1 ELSE -1,
      IF gt(rsi, Num(50)) THEN 1 ELSE -1>>

\* if (signalSum >= 2) trend = 'bullish'; else if (signalSum <= -2) trend = 'bearish'
trendOfMajority(signalSum) ==
    IF signalSum >= 1 THEN "bullish"
    ELSE IF signalSum <= -1 THEN "bearish"
    ELSE "neutral"

trendOf(signalSum) ==
    IF signalSum >= 2 THEN "bullish"
    ELSE IF signalSum <= -2 THEN "bearish"
    ELSE "neutral"

\* The entry of analyses for one timeframe, with the local signalSum kept beside
\* the trend (priceChange and volatility left out)
analysisOf(n, isLoadingEntry, price, sma, hist, rsi) ==
    IF notAnalysed(n, isLoadingEntry)
    THEN [trend |-> "neutral", rsi |-> NaN, smaSignal |-> "above",
          macdSignal |-> "neutral", signalSum |-> 0]
    ELSE [trend |-> trendOf(SumSeq(signalsOf(price, sma, hist, rsi))),
          rsi |-> rsi,
          smaSignal |-> smaSignalOf(price, sma),
          macdSignal |-> macdSignalOf(hist),
          signalSum |-> SumSeq(signalsOf(price, sma, hist, rsi))]

CandleCounts == {0, 13, 14, 40}
Prices == {Num(90), Num(100), Num(110)}
SmaValues == {NaN, Num(100)}
HistogramValues == {NaN, Num(-1), Num(0), Num(1)}
RsiValues == {NaN, Num(30), Num(50), Num(70)}

NoAnalysis ==
    [trend |-> "neutral", rsi |-> NaN, smaSignal |-> "above",
     macdSignal |-> "neutral", signalSum |-> 0]

AnaIdle ==
    /\ candleCount = 0
    /\ entryLoading = FALSE
    /\ lastPrice = Num(100)
    /\ lastSma = NaN
    /\ lastHistogram = NaN
    /\ currentRsi = NaN
    /\ analysis = NoAnalysis
    /\ apc = "input"

\* A timeframe entry and what the indicators give for its closes
AnaInit ==
    /\ candleCount \in CandleCounts
    /\ entryLoading \in BOOLEAN
    /\ lastPrice \in Prices
    /\ lastSma \in SmaValues
    /\ lastHistogram \in HistogramValues
    /\ currentRsi \in RsiValues
    /\ analysis = NoAnalysis
    /\ apc = "input"

\* The callback of the analyses memo, for the timeframe
Analyse ==
    /\ apc = "input"
    /\ analysis' = analysisOf(candleCount, entryLoading, lastPrice, lastSma,
                               lastHistogram, currentRsi)
    /\ apc' = "done"
    /\ UNCHANGED <<candleCount, entryLoading, lastPrice, lastSma, lastHistogram, currentRsi>>
    /\ UNCHANGED notAnaVars

AnaNext == Analyse

----------------------------------------------------------------------------
(* Specifications *)

\* The pattern detector applied to caller-built series
Init == PatInit /\ DivIdle /\ CorInit /\ MapInit /\ MatInit /\ PkInit /\ DetIdle /\ CmpIdle /\ TfIdle /\ LsrIdle /\ McvIdle /\ AnaIdle
Spec == Init /\ [][PatNext]_vars

\* The pattern detector applied to short series with flat candles
InitShort == PatInit /\ DivIdle /\ CorInit /\ MapInit /\ MatInit /\ PkInit /\ DetIdle /\ CmpIdle /\ TfIdle /\ LsrIdle /\ McvIdle /\ AnaIdle
SpecShort == InitShort /\ [][ShortNext]_vars

\* The divergence detector applied to a data prop
InitDivergence == DivInit /\ PatInit /\ CorInit /\ MapInit /\ MatInit /\ PkInit /\ DetIdle /\ CmpIdle /\ TfIdle /\ LsrIdle /\ McvIdle /\ AnaIdle
SpecDivergence == InitDivergence /\ [][DivNext]_vars

\* The correlation engine applied to caller-built return series
InitCorrelation == CorInit /\ PatInit /\ DivIdle /\ MapInit /\ MatInit /\ PkInit /\ DetIdle /\ CmpIdle /\ TfIdle /\ LsrIdle /\ McvIdle /\ AnaIdle
SpecCorrelation == InitCorrelation /\ [][CorNext]_vars

\* The treemap layout applied to caller-built item lists and to the heatmap's assets
InitTreemap == MapInit /\ PatInit /\ DivIdle /\ CorInit /\ MatInit /\ PkInit /\ DetIdle /\ CmpIdle /\ TfIdle /\ LsrIdle /\ McvIdle /\ AnaIdle
SpecTreemap == InitTreemap /\ [][MapNext]_vars

\* findPeaks applied to caller-built series
InitPeaks == PkInit /\ PatInit /\ DivIdle /\ CorInit /\ MapInit /\ MatInit /\ DetIdle /\ CmpIdle /\ TfIdle /\ LsrIdle /\ McvIdle /\ AnaIdle
SpecPeaks == InitPeaks /\ [][PkNext]_vars

\* detectDivergences applied to caller-built series
InitDetect == DetInit /\ PatInit /\ DivIdle /\ CorInit /\ MapInit /\ MatInit /\ PkInit /\ CmpIdle /\ TfIdle /\ LsrIdle /\ McvIdle /\ AnaIdle
SpecDetect == InitDetect /\ [][DetNext]_vars

\* The PatternDetector component through renders, toggles and changes of data
InitComponent == CmpInit /\ PatInit /\ DivIdle /\ CorInit /\ MapInit /\ MatInit /\ PkInit /\ DetIdle /\ TfIdle /\ LsrIdle /\ McvIdle /\ AnaIdle
SpecComponent == InitComponent /\ [][CmpNext]_vars

\* The MultiTimeframe component through toggles, symbol changes and fetches
InitTimeframe == TfInit /\ PatInit /\ DivIdle /\ CorInit /\ MapInit /\ MatInit /\ PkInit /\ DetIdle /\ CmpIdle /\ LsrIdle /\ McvIdle /\ AnaIdle
SpecTimeframe == InitTimeframe /\ [][TfNext]_vars

\* The LongShortRatio component through toggles, symbol changes, polls and responses
InitRatio == LsrInit /\ PatInit /\ DivIdle /\ CorInit /\ MapInit /\ MatInit /\ PkInit /\ DetIdle /\ CmpIdle /\ TfIdle /\ McvIdle /\ AnaIdle
SpecRatio == InitRatio /\ [][LsrNext]_vars

\* The MultiChartView component through selections, removals and fetches
InitCharts == McvInit /\ PatInit /\ DivIdle /\ CorInit /\ MapInit /\ MatInit /\ PkInit /\ DetIdle /\ CmpIdle /\ TfIdle /\ LsrIdle /\ AnaIdle
SpecCharts == InitCharts /\ [][McvNext]_vars

\* The analyses memo applied to one timeframe entry
InitAnalysis == AnaInit /\ PatInit /\ DivIdle /\ CorInit /\ MapInit /\ MatInit /\ PkInit /\ DetIdle /\ CmpIdle /\ TfIdle /\ LsrIdle /\ McvIdle
SpecAnalysis == InitAnalysis /\ [][AnaNext]_vars

\* The correlation matrix component through one fetch of the return series
InitMatrix == MatInit /\ PatInit /\ DivIdle /\ CorInit /\ MapInit /\ PkInit /\ DetIdle /\ CmpIdle /\ TfIdle /\ LsrIdle /\ McvIdle /\ AnaIdle
SpecMatrix == InitMatrix /\ [][MatNext]_vars

----------------------------------------------------------------------------
(* Claims about the pattern detector *)

InRange(p) == 0 <= p.index /\ p.index <= Len(data) - 1
Entries(s) == {s[k] : k \in DOMAIN s}

\* C1: every returned pattern's index is a position of the full input series,
\* 0 <= index <= data.length - 1, also when the series is shorter than the lookback.
C1_IndexIsAbsolutePosition ==
    (ppc = "done" /\ Len(data) >= 3) => \A p \in Entries(returned) : InRange(p)

\* Three candles forming a textbook Morning Star
TextbookMorningStar(d) ==
    /\ Len(d) = 3
    /\ LET avgBody == avgBodyOf(d)
       IN  /\ isBearish(d[1]) /\ FGt(R(bodySize(d[1])), avgBody)
           /\ FLt(R(bodySize(d[2])), Times(avgBody, 3, 10))
           /\ isBullish(d[3]) /\ FGt(R(bodySize(d[3])), avgBody)
           /\ 2 * d[3].close > d[1].open + d[1].close

\* C2: with the default lookback, a three-candle textbook Morning Star yields a
\* "Morning Star" entry, bullish, high reliability, at the last index (2).
C2_MorningStarAtLastIndex ==
    (ppc = "done" /\ lookback = DefaultLookback /\ TextbookMorningStar(data)) =>
        \E p \in Entries(returned) :
            /\ p.name = "Morning Star" /\ p.type = "bullish"
            /\ p.reliability = "high" /\ p.index = 2

\* C3: fewer than 3 candles give an empty list, whatever the lookback.
C3_ShortSeriesEmpty ==
    (ppc = "done" /\ Len(data) < 3) => returned = <<>>

C3_Witness ==
    /\ ppc = "done" /\ Len(data) = 2 /\ lookback = 3 /\ returned = <<>>
    /\ data[1] = CandleA /\ data[2] = CandleB

\* C4: at most 10 patterns are returned; they are the last 10 matches of the scan,
\* in non-decreasing index order, and no dropped match has a higher index than a
\* kept one.
C4_LastTenInScanOrder ==
    ppc = "done" =>
        LET n == Len(patterns)
            m == Len(returned)
        IN  /\ m <= 10
            /\ m = IF n > 10 THEN 10 ELSE n
            /\ \A k \in 1..m : returned[k] = patterns[n - m + k]
            /\ \A k \in 1..(m - 1) : returned[k].index <= returned[k + 1].index
            /\ \A j \in 1..(n - m) : \A k \in 1..m :
                   patterns[j].index <= returned[k].index

C4_Witness ==
    ppc = "done" /\ Len(patterns) > 10 /\ Len(returned) = 10

\* All four prices of every candle multiplied by k
ScaleSeries(d, k) ==
    [i \in DOMAIN d |->
        Candle(d[i].open * k, d[i].high * k, d[i].low * k, d[i].close * k)]

ScaleFactors == {2, 3, 10}

\* C5: multiplying all open/high/low/close values by a positive constant yields the
\* same list of patterns (names, types, reliabilities, indices).
C5_ScaleInvariant ==
    ppc = "done" =>
        \A k \in ScaleFactors :
            detectCandlePatterns(ScaleSeries(data, k), lookback) = returned

C5_Witness ==
    /\ ppc = "done" /\ Len(returned) >= 3
    /\ \E p \in Entries(returned) : p.name = "Doji"
    /\ detectCandlePatterns(ScaleSeries(data, 3), lookback) = returned

IsFlat(c) == c.close = c.open

\* 0-based positions of recentData that the scan visits with a previous candle
PairPositions == IF Len(data) < 3 THEN {} ELSE 1..(Len(recentDataOf(data, lookback)) - 1)
PrevAt(i) == recentDataOf(data, lookback)[i]
CurrAt(i) == recentDataOf(data, lookback)[i + 1]

\* The scan pushed a pattern of one of these names for position i
FoundAt(i, names) ==
    \E p \in Entries(patterns) :
        p.index = globalIdxOf(data, lookback, i) /\ p.name \in names

\* The Bullish Engulfing rule with "bearish" read as "not bullish"
EngulfsNotBullish(prev, curr) ==
    /\ ~isBullish(prev) /\ isBullish(curr)
    /\ 5 * bodySize(curr) > 6 * bodySize(prev)
    /\ curr.open < prev.close /\ curr.close > prev.open

\* C19 as claimed: every candle has exactly one flag, bullish iff close > open and
\* bearish otherwise, so that a candle with close = open counts as bearish as the
\* first candle of a Bullish Engulfing.
C19_FlatCountsAsBearish ==
    ppc = "done" =>
        /\ \A k \in DOMAIN data : isBearish(data[k]) <=> ~isBullish(data[k])
        /\ \A i \in PairPositions :
             EngulfsNotBullish(PrevAt(i), CurrAt(i)) => FoundAt(i, {"Bullish Engulfing"})

\* C19 as amended: a candle is bullish iff close > open and bearish iff
\* close < open; a candle with close = open is neither, and no two-candle rule
\* matches a pair whose first or second candle is one.
C19_FlatIsNeitherDirection ==
    ppc = "done" =>
        /\ \A k \in DOMAIN data :
             /\ isBullish(data[k]) <=> data[k].close > data[k].open
             /\ isBearish(data[k]) <=> data[k].close < data[k].open
             /\ IsFlat(data[k]) <=> (~isBullish(data[k]) /\ ~isBearish(data[k]))
        /\ \A i \in PairPositions :
             (IsFlat(PrevAt(i)) \/ IsFlat(CurrAt(i))) =>
                 ~FoundAt(i, {"Bullish Engulfing", "Bearish Engulfing",
                              "Piercing Line", "Dark Cloud Cover"})

\* A flat candle followed by a bullish candle that engulfs it, scanned as a pair,
\* with patterns found at that position but no Bullish Engulfing
C19_Witness ==
    /\ ppc = "done"
    /\ \E i \in PairPositions :
          /\ IsFlat(PrevAt(i)) /\ EngulfsNotBullish(PrevAt(i), CurrAt(i))
          /\ FoundAt(i, {"Hammer"})
          /\ ~FoundAt(i, {"Bullish Engulfing"})

----------------------------------------------------------------------------
(* Claims about the divergence detector *)

\* The two per-indicator lists of the memo callback, merged
allDivergences ==
    rsiDivergencesOf(closes, rsiValues) \o macdDivergencesOf(closes, histogram)

\* C6: a series shorter than 30 candles gives an empty result, and no
\* indicator-based divergence is computed for it.
C6_ShortSeriesNoDivergences ==
    (dpc = "fresh" /\ Len(closes) < 30) => (divergences = <<>> /\ ~indicatorsRun)

\* 29 closes that would yield a divergence if the detection ran
C6_Witness ==
    /\ dpc = "fresh" /\ Len(closes) = 29 /\ divergences = <<>>
    /\ \E rsi \in RsiOutputs(29) : rsiDivergencesOf(closes, rsi) # <<>>

\* C7: the result is the merged RSI and MACD lists sorted by non-increasing endIndex
\* and cut to 10: at most 10 entries, most recent first, and no omitted divergence
\* has a larger endIndex than a kept one.
C7_SortedThenTopTen ==
    (dpc = "fresh" /\ indicatorsRun) =>
        LET all  == allDivergences
            n    == Len(divergences)
            kept == Entries(divergences)
        IN  /\ n <= 10
            /\ n = IF Len(all) > 10 THEN 10 ELSE Len(all)
            /\ kept \subseteq Entries(all)
            /\ Cardinality(kept) = n
            /\ \A k \in 1..(n - 1) : divergences[k].endIndex >= divergences[k + 1].endIndex
            /\ \A o \in Entries(all) \ kept : \A d \in kept : o.endIndex <= d.endIndex

C7_Witness ==
    /\ dpc = "fresh" /\ indicatorsRun
    /\ Len(allDivergences) > 10 /\ Len(divergences) = 10
    /\ \E d \in Entries(divergences) : d.indicator = "RSI"
    /\ \E d \in Entries(divergences) : d.indicator = "MACD"
    /\ \E o \in Entries(allDivergences) \ Entries(divergences) :
           o.endIndex < divergences[10].endIndex

\* 100 * combinedStrength of a divergence as a fraction num / den, from its fields:
\* |price move| / priceStart + |indicator move| / |indicatorStart| (1 for a zero start)
StrengthNum(d) ==
    100 * (Abs(d.priceEnd - d.priceStart) * AbsOrOne(d.indicatorStart)
           + Abs(d.indicatorEnd - d.indicatorStart) * d.priceStart)
StrengthDen(d) == d.priceStart * AbsOrOne(d.indicatorStart)

\* C8: strength is 'strong' iff combinedStrength > 0.15, 'moderate' iff
\* 0.08 < combinedStrength <= 0.15, 'weak' otherwise.
C8_StrengthThresholds ==
    (dpc = "fresh" /\ indicatorsRun) =>
        \A d \in Entries(allDivergences) :
            /\ d.strength \in {"strong", "moderate", "weak"}
            /\ d.strength = "strong" <=> StrengthNum(d) > 15 * StrengthDen(d)
            /\ d.strength = "moderate" <=>
                   (StrengthNum(d) > 8 * StrengthDen(d) /\ StrengthNum(d) <= 15 * StrengthDen(d))
            /\ d.strength = "weak" <=> StrengthNum(d) <= 8 * StrengthDen(d)

\* A divergence at exactly 0.15 (moderate) beside a strong one
C8_Witness ==
    /\ dpc = "fresh" /\ indicatorsRun
    /\ \E d \in Entries(allDivergences) :
           StrengthNum(d) = 15 * StrengthDen(d) /\ d.strength = "moderate"
    /\ \E d \in Entries(allDivergences) :
           StrengthNum(d) > 15 * StrengthDen(d) /\ d.strength = "strong"

\* Divergences at exactly 0.08 (weak) and at exactly 0.20 (strong) are reached too
C8_BoundaryWeakReached ==
    /\ dpc = "fresh" /\ indicatorsRun
    /\ \E d \in Entries(allDivergences) :
           StrengthNum(d) = 8 * StrengthDen(d) /\ d.strength = "weak"

C8_TwentyPercentReached ==
    /\ dpc = "fresh" /\ indicatorsRun
    /\ \E d \in Entries(allDivergences) :
           StrengthNum(d) = 20 * StrengthDen(d) /\ d.strength = "strong"

----------------------------------------------------------------------------
(* Claims about the correlation engine *)

overlap == Min(Len(seriesA), Len(seriesB))

\* The Pearson sums over the aligned tails, by position: the last n values of each
\* series, n * value - sum as the scaled deviation
TailAt(s, n, i) == s[Len(s) - n + i]
TailSum(s, n) == SumSeq([i \in 1..n |-> TailAt(s, n, i)])
TailDev(s, n, i) == n * TailAt(s, n, i) - TailSum(s, n)
TailCross(s, t, n) == SumSeq([i \in 1..n |-> TailDev(s, n, i) * TailDev(t, n, i)])

\* C9: fewer than 5 overlapping values give exactly 0; otherwise the result is the
\* coefficient of the last n values of each series (tails aligned).
C9_ShortZeroElseAlignedTails ==
    cpc = "done" =>
        LET n == overlap
        IN  /\ n < 5 => corr = Zero
            /\ n >= 5 =>
                 LET den2 == TailCross(seriesA, seriesA, n) * TailCross(seriesB, seriesB, n)
                 IN  IF den2 = 0 THEN corr = Zero
                     ELSE corr = Coefficient(TailCross(seriesA, seriesB, n), den2)

\* Unequal lengths, and a leading surplus value that would change the result if the
\* heads were aligned instead: positive for the tails, not positive for the heads
C9_Witness ==
    /\ cpc = "done" /\ overlap = 5 /\ Len(seriesA) = 6
    /\ corr.num > 0
    /\ calculateCorrelation(SubSeq(seriesA, 1, 5), seriesB).num <= 0

IsConstant(s) == \A i, j \in DOMAIN s : s[i] = s[j]

\* C10: the result is 0, not NaN, whenever one of the truncated series is constant,
\* i.e. whenever the product of the two sums of squared deviations is 0.
C10_ConstantSeriesZero ==
    (cpc = "done" /\ overlap >= 5) =>
        LET n == overlap
            constant == IsConstant(lastN(seriesA, n)) \/ IsConstant(lastN(seriesB, n))
        IN  /\ constant <=>
                 TailCross(seriesA, seriesA, n) * TailCross(seriesB, seriesB, n) = 0
            /\ constant => corr = Zero
            /\ corr.den2 > 0

C10_Witness ==
    /\ cpc = "done" /\ overlap >= 5 /\ corr = Zero
    /\ IsConstant(lastN(seriesA, overlap)) /\ ~IsConstant(seriesA)
    /\ ~IsConstant(lastN(seriesB, overlap))

\* C11: calculateCorrelation is symmetric, for series of equal or unequal lengths:
\* calculateCorrelation(a, b) = calculateCorrelation(b, a).
C11_Symmetric ==
    cpc = "done" => calculateCorrelation(seriesB, seriesA) = corr

\* Unequal lengths, different spreads, a non-zero coefficient
C11_Witness ==
    /\ cpc = "done" /\ Len(seriesA) = 6 /\ Len(seriesB) = 5
    /\ corr.num # 0
    /\ TailCross(seriesA, seriesA, 5) # TailCross(seriesB, seriesB, 5)
    /\ calculateCorrelation(seriesB, seriesA) = corr

\* num / sqrt(den2) = 1
IsOne(c) == c.num > 0 /\ c.num * c.num = c.den2

\* C12: for a non-constant series a of length at least 5,
\* calculateCorrelation(a, a) = 1.
C12_SelfCorrelationIsOne ==
    (cpc = "done" /\ seriesA = seriesB /\ Len(seriesA) >= 5 /\ ~IsConstant(seriesA)) =>
        IsOne(corr)

C12_Witness ==
    /\ cpc = "done" /\ seriesA = seriesB /\ Len(seriesA) = 6
    /\ ~IsConstant(seriesA) /\ corr.num > 1 /\ IsOne(corr)

----------------------------------------------------------------------------
(* Claims about the treemap layout engine *)

positiveContainer == containerWidth > 0 /\ containerHeight > 0
AllPositive(its) == \A k \in DOMAIN its : its[k].weight > 0
NoneNegative(its) == \A k \in DOMAIN its : its[k].weight >= 0

\* a <= b for finite numbers
Le(a, b) == a.num * b.den <= b.num * a.den

IsDefined(r) == IsFinite(r.x) /\ IsFinite(r.y) /\ IsFinite(r.w) /\ IsFinite(r.h)

Inside(r) ==
    /\ IsDefined(r)
    /\ Le(Fin(0, 1), r.x) /\ Le(JsAdd(r.x, r.w), Fin(containerWidth, 1))
    /\ Le(Fin(0, 1), r.y) /\ Le(JsAdd(r.y, r.h), Fin(containerHeight, 1))

\* The interiors of two rectangles do not meet
Apart(r, q) ==
    \/ Le(JsAdd(r.x, r.w), q.x) \/ Le(JsAdd(q.x, q.w), r.x)
    \/ Le(JsAdd(r.y, r.h), q.y) \/ Le(JsAdd(q.y, q.h), r.y)

Area(r) == JsMul(r.w, r.h)

RECURSIVE AreaSum(_)
AreaSum(rs) == IF rs = <<>> THEN Fin(0, 1) ELSE JsAdd(Area(Head(rs)), AreaSum(Tail(rs)))

\* C14: for a positive container and all-positive weights, squarify returns one
\* rectangle per item in input order, and the rectangles exactly tile the container:
\* each lies inside it, no two overlap, item k has the area
\* width * height * weight / totalWeight, and the areas sum to width * height.
C14_RectanglesTileContainer ==
    (tpc = "done" /\ positiveContainer /\ items # <<>> /\ AllPositive(items)) =>
        /\ Len(layout) = Len(items)
        /\ \A k \in DOMAIN layout :
             /\ layout[k].symbol = items[k].symbol
             /\ Inside(layout[k])
             /\ Area(layout[k]) = Fin(containerWidth * containerHeight * items[k].weight,
                                      totalWeightOf(items))
        /\ \A j, k \in DOMAIN layout : j # k => Apart(layout[j], layout[k])
        /\ AreaSum(layout) = Fin(containerWidth * containerHeight, 1)

\* Eight items of unequal weights in a tall container: three stacked, three side
\* by side after the first flip, two stacked after the second
C14_Witness ==
    /\ tpc = "done" /\ containerWidth < containerHeight /\ containerWidth > 0
    /\ Len(items) = 8 /\ AllPositive(items) /\ items[1].weight # items[8].weight
    /\ Len(layout) = 8
    /\ layout[2].x = layout[1].x /\ layout[2].y # layout[1].y
    /\ layout[5].y = layout[4].y /\ layout[5].x # layout[4].x
    /\ layout[8].x = layout[7].x /\ layout[8].y # layout[7].y
    /\ AreaSum(layout) = Fin(containerWidth * containerHeight, 1)

\* C15: for a positive container and weights that are positive or zero (such as the
\* heatmap's log10(max(cap, 1)) of a market cap <= 1) with a non-zero total, every
\* rectangle has a defined, non-negative width and height.
C15_DimensionsDefinedNonNegative ==
    (tpc = "done" /\ positiveContainer /\ NoneNegative(items)
       /\ totalWeightOf(items) # 0) =>
        \A k \in DOMAIN layout :
            /\ IsFinite(layout[k].w) /\ layout[k].w.num >= 0
            /\ IsFinite(layout[k].h) /\ layout[k].h.num >= 0

\* C16: squarify returns an empty layout when the item list is empty, when the
\* container width or height is <= 0, or when the total weight is <= 0.
C16_DegenerateInputsEmpty ==
    (tpc = "done" /\ (items = <<>> \/ containerWidth <= 0 \/ containerHeight <= 0
                        \/ totalWeightOf(items) <= 0)) =>
        layout = <<>>

\* Items of total weight 0, some of them positive, in a positive container
C16_Witness ==
    /\ tpc = "done" /\ positiveContainer /\ Len(items) >= 3
    /\ totalWeightOf(items) = 0 /\ ~NoneNegative(items)
    /\ layout = <<>>

\* C17: the layout is empty whenever the input contains a non-positive weight (an
\* item whose weight is zero or negative), not only when the total is non-positive.
C17_NonPositiveWeightEmpty ==
    (tpc = "done" /\ ~AllPositive(items)) => layout = <<>>

----------------------------------------------------------------------------
(* Claims about the correlation matrix *)

Present == {CRYPTO_SYMBOLS[k] : k \in {j \in DOMAIN CRYPTO_SYMBOLS : CRYPTO_SYMBOLS[j] \in DOMAIN returns}}

\* C18: the matrix over the symbols that have a return series is square, every
\* diagonal cell is 1 (also for a constant or too short series, for which the
\* computed coefficient would be 0), and cell (r, c) equals cell (c, r).
C18_SquareUnitDiagonalSymmetric ==
    LET n == Len(matrix)
    IN  /\ n = Cardinality(Present)
        /\ {matrix[r].row : r \in 1..n} = Present
        /\ \A r \in 1..n :
             /\ Len(matrix[r].cols) = n
             /\ \A c \in 1..n : matrix[r].cols[c].symbol = matrix[c].row
             /\ matrix[r].cols[r].corr = One
             /\ \A c \in 1..n : matrix[r].cols[c].corr = matrix[c].cols[r].corr

\* Four symbols fetched, one skipped; a constant and a too short series on the
\* diagonal; a pair of varying series of different lengths off the diagonal
C18_Witness ==
    /\ mpc = "shown" /\ Len(matrix) = 4 /\ "SOL" \notin DOMAIN returns
    /\ \E sym \in Present :
          IsConstant(returns[sym]) /\ calculateCorrelation(returns[sym], returns[sym]) = Zero
    /\ \E sym \in Present : Len(returns[sym]) < 5
    /\ \E r, c \in 1..4 :
          /\ r # c /\ matrix[r].cols[c].corr.num # 0
          /\ Len(returns[matrix[r].row]) # Len(returns[matrix[c].row])
          /\ matrix[r].cols[c].corr = matrix[c].cols[r].corr

----------------------------------------------------------------------------
(* Claims about findPeaks *)

Positions == 0..(Len(series) - 1)
InWindow(i) == {j \in (i - window)..(i + window) : j # i}
Centre(i) == window <= i /\ i < Len(series) - window /\ ~isNaN(series[i + 1])
Reported(i, t) == \E p \in Entries(peaks) : p.index = i /\ p.type = t
Defined(j) == ~isNaN(series[j + 1])

NoPeakIsBoth == \A i \in Positions : ~(Reported(i, "high") /\ Reported(i, "low"))
SameKindFarApart ==
    \A p, q \in Entries(peaks) :
        (p.type = q.type /\ p.index # q.index) => Abs(p.index - q.index) > window

\* C20 as claimed: index i is reported as a high exactly when w <= i < length - w,
\* data[i] is defined and every other index of [i - w, i + w] has a strictly smaller
\* value (symmetrically for a low); hence, for w >= 1, no index is both a high and
\* a low, and two highs (or two lows) are more than w positions apart.
C20_PeaksAsClaimed ==
    kpc = "done" =>
        /\ \A i \in Positions :
             /\ Reported(i, "high") <=>
                  (Centre(i) /\ \A j \in InWindow(i) :
                                    Defined(j) /\ series[j + 1].v < series[i + 1].v)
             /\ Reported(i, "low") <=>
                  (Centre(i) /\ \A j \in InWindow(i) :
                                    Defined(j) /\ series[j + 1].v > series[i + 1].v)
        /\ window >= 1 => (NoPeakIsBoth /\ SameKindFarApart)

\* C20 as amended: undefined neighbours are skipped, not compared: i is reported as a
\* high exactly when it is a centre and every other index of its window with a
\* defined value has a strictly smaller one (symmetrically for a low), each with the
\* value data[i]; two highs (or two lows) are more than w apart; and for w >= 1 an
\* index is both a high and a low only if no other value of its window is defined.
C20_PeaksSkipUndefined ==
    kpc = "done" =>
        /\ \A p \in Entries(peaks) :
             p.index \in Positions /\ p.value = series[p.index + 1].v
        /\ \A i \in Positions :
             /\ Reported(i, "high") <=>
                  (Centre(i) /\ \A j \in InWindow(i) :
                                    Defined(j) => series[j + 1].v < series[i + 1].v)
             /\ Reported(i, "low") <=>
                  (Centre(i) /\ \A j \in InWindow(i) :
                                    Defined(j) => series[j + 1].v > series[i + 1].v)
        /\ SameKindFarApart
        /\ window >= 1 =>
             \A i \in Positions :
                 (Reported(i, "high") /\ Reported(i, "low")) =>
                     \A j \in InWindow(i) : ~Defined(j)

\* Two highs two apart for w = 1, the first next to an undefined value, and a low
C20_Witness ==
    /\ kpc = "done" /\ window = 1 /\ Len(series) = 6
    /\ isNaN(series[1]) /\ Reported(1, "high") /\ Reported(3, "high")
    /\ Reported(2, "low") /\ ~Reported(4, "low")
    /\ NoPeakIsBoth

\* A defined value between undefined ones is reported as a high and as a low
C20_IsolatedValueIsBoth ==
    /\ kpc = "done" /\ window = 1
    /\ \E i \in Positions : Reported(i, "high") /\ Reported(i, "low")

----------------------------------------------------------------------------
(* Claims about detectDivergences called on its own *)

KindOf(d) == IF d.type = "bearish" THEN "high" ELSE "low"

\* The extrema of one kind that findPeaks reports for a series
ExtremaOf(s, kind) == {p \in Entries(findPeaks(s, peakWindow)) : p.type = kind}

\* The oscillator extrema of one kind within the tolerance of a price index
OscNear(kind, at) ==
    {p \in ExtremaOf(oscSeries, kind) : Abs(p.index - at) <= peakWindow + 2}

Earliest(S) == CHOOSE p \in S : \A q \in S : p.index <= q.index

ConsecutivePriceExtrema(d) ==
    /\ \E p \in ExtremaOf(priceSeries, KindOf(d)) :
          p.index = d.startIndex /\ p.value = d.priceStart
    /\ \E p \in ExtremaOf(priceSeries, KindOf(d)) :
          p.index = d.endIndex /\ p.value = d.priceEnd
    /\ \A p \in ExtremaOf(priceSeries, KindOf(d)) :
          ~(d.startIndex < p.index /\ p.index < d.endIndex)

Diverges(d) ==
    /\ d.type = "bearish" => d.priceEnd > d.priceStart /\ d.indicatorEnd < d.indicatorStart
    /\ d.type = "bullish" => d.priceEnd < d.priceStart /\ d.indicatorEnd > d.indicatorStart

MatchedNearby(d) ==
    /\ OscNear(KindOf(d), d.startIndex) # {}
    /\ OscNear(KindOf(d), d.endIndex) # {}
    /\ Earliest(OscNear(KindOf(d), d.startIndex)).value = d.indicatorStart
    /\ Earliest(OscNear(KindOf(d), d.endIndex)).value = d.indicatorEnd
    /\ Earliest(OscNear(KindOf(d), d.startIndex)).index
          < Earliest(OscNear(KindOf(d), d.endIndex)).index

\* C21: every divergence returned by detectDivergences starts before it ends, spans
\* at most maxDistance, joins two consecutive price extrema of one kind, has price
\* and oscillator moving in opposite directions as its type says, and is matched to
\* two distinct oscillator extrema, each within w + 2 of its price extremum, the
\* first at the lower index
C21_DivergenceWellFormed ==
    xpc = "done" =>
        \A d \in Entries(detected) :
            /\ d.type \in {"bearish", "bullish"}
            /\ d.startIndex < d.endIndex
            /\ d.endIndex - d.startIndex <= distanceLimit
            /\ ConsecutivePriceExtrema(d)
            /\ Diverges(d)
            /\ MatchedNearby(d)

\* A bearish divergence whose first oscillator high lies exactly w + 2 before its
\* price high, found while another pair of price highs is further apart than allowed
C21_Witness ==
    /\ xpc = "done"
    /\ \E d \in Entries(detected) :
          /\ d.type = "bearish"
          /\ Earliest(OscNear("high", d.startIndex)).index = d.startIndex - (peakWindow + 2)
    /\ \E p, q \in ExtremaOf(priceSeries, "high") :
          q.index - p.index > distanceLimit /\ q.value > p.value
          /\ \A r \in ExtremaOf(priceSeries, "high") : ~(p.index < r.index /\ r.index < q.index)

----------------------------------------------------------------------------
(* Claims about the divergence list as rendered *)

\* C30: with the half-window of 5 every divergence ends at index L - 6 or earlier,
\* so candlesAgo is at least 5, the 'Current candle' label is never shown, and the
\* recent view only holds divergences that ended 5 to 19 candles ago
C30_NeverCurrentCandle ==
    (dpc = "fresh" /\ indicatorsRun) =>
        /\ \A d \in Entries(allDivergences) \cup Entries(divergences) :
              /\ d.endIndex <= Len(closes) - PeakLookback - 1
              /\ candlesAgo(Len(closes), d) # 0
              /\ agoLabel(candlesAgo(Len(closes), d)) # "Current candle"
        /\ \A d \in Entries(recentDivergences(divergences, Len(closes))) :
              candlesAgo(Len(closes), d) \in 5..19

\* One divergence ends exactly 5 candles ago and is recent, another ends exactly
\* 20 candles ago and is not
C30_Witness ==
    /\ dpc = "fresh" /\ indicatorsRun
    /\ \E d \in Entries(recentDivergences(divergences, Len(closes))) :
          candlesAgo(Len(closes), d) = 5
    /\ \E d \in Entries(divergences) :
          /\ candlesAgo(Len(closes), d) = 20
          /\ d \notin Entries(recentDivergences(divergences, Len(closes)))

----------------------------------------------------------------------------
(* Claims about the PatternDetector component *)

Ascending(ps) == \A i, j \in DOMAIN ps : i < j => ps[i].index <= ps[j].index
Descending(ps) == \A i, j \in DOMAIN ps : i < j => ps[i].index >= ps[j].index

\* C27: rendering leaves the stored pattern list alone: after any toggles and
\* re-renders it is still in detection order (ascending index), and the collapsed
\* view shows its last 5 entries, the most recent matches, newest first
C27_RenderKeepsStoredList ==
    ~renderDue =>
        /\ Ascending(storedPatterns)
        /\ ~expanded =>
              /\ Descending(shownPatterns)
              /\ shownPatterns = Reverse(SliceFrom(storedPatterns, -5))
              /\ \A p \in Entries(storedPatterns), q \in Entries(shownPatterns) :
                     p \notin Entries(shownPatterns) => p.index <= q.index

\* The collapsed view after one expanded render: the five oldest matches, oldest first
C27_CollapsedShowsOldest ==
    /\ ~renderDue /\ ~effectDue /\ ~expanded
    /\ Len(propData) = 32
    /\ Len(storedPatterns) = 10
    /\ shownPatterns = SubSeq(detectCandlePatterns(propData, PatternLookback), 1, 5)

\* C28: once the effect has run for the current data prop, the stored list equals
\* detectCandlePatterns(data, 30); in particular it is empty when a series of 3
\* candles or fewer follows a longer one
C28_ListMatchesData ==
    (~renderDue /\ ~effectDue) =>
        /\ storedPatterns = detectCandlePatterns(propData, PatternLookback)
        /\ Len(propData) < 3 => storedPatterns = <<>>

\* The list of an earlier, longer series is still stored, never reversed by a
\* render, after the data prop became a series of two candles
C28_StaleAfterShortData ==
    /\ ~renderDue /\ ~effectDue /\ ~expanded
    /\ Len(propData) = 2
    /\ detectCandlePatterns(propData, PatternLookback) = <<>>
    /\ Len(storedPatterns) = 5
    /\ Ascending(storedPatterns)

----------------------------------------------------------------------------
(* Claims about the MultiTimeframe component *)

Loaded(tfd) == \E d \in DOMAIN tfd : ~tfd[d].loading

\* C22: while the panel is open, loading ends: once every started fetch has
\* settled, no timeframe entry is still loading, also after the panel was closed
\* during a fetch and reopened for the same symbol
C22_LoadingEndsWhenSettled ==
    (panelOpen /\ inflight = {}) => ~isLoading(timeframeData)

\* The panel is open, nothing is in flight, and every entry is loading
C22_StuckLoading ==
    /\ panelOpen /\ inflight = {}
    /\ fetchedRef = tfSymbol
    /\ timeframeData = initialState

\* C23: loaded entries of timeframeData always come from a fetch issued for the
\* current symbol; a fetch whose symbol was replaced or whose panel was closed
\* writes nothing when it settles
C23_LoadedForCurrentSymbol ==
    Loaded(timeframeData) =>
        /\ loadedFor = tfSymbol
        /\ \A d \in DOMAIN timeframeData :
              \A k \in DOMAIN timeframeData[d].data : timeframeData[d].data[k] = tfSymbol

\* Entries loaded for ETH while the cancelled fetch for BTC has yet to settle
C23_Witness ==
    /\ Loaded(timeframeData)
    /\ tfSymbol = "ETH" /\ loadedFor = "ETH"
    /\ [symbol |-> "BTC", cancelled |-> TRUE] \in inflight
    /\ \E d \in DOMAIN timeframeData : timeframeData[d].data = <<"ETH", "ETH">>

----------------------------------------------------------------------------
(* Claims about the LongShortRatio component *)

\* C24: the data the component shows comes from a fetch issued for the current
\* symbol: the response of a load started for an earlier symbol, or before the
\* panel was closed, is never stored in data
C24_DataForCurrentSymbol ==
    (isSupported(lsrSymbol) /\ ~lsrLoading) =>
        \A k \in DOMAIN lsrData : lsrData[k] = ToUpperCase(lsrSymbol)

\* The panel is open for ETH, nothing is in flight, and the rows are those of BTC
C24_StaleResponseStored ==
    /\ lsrOpen /\ lsrSymbol = "ETH" /\ ~lsrLoading
    /\ pendingLoads = NoLoads
    /\ lsrData = <<"BTC", "BTC">>

----------------------------------------------------------------------------
(* Claims about the MultiChartView component *)

Selected == {selectedSymbols[k] : k \in DOMAIN selectedSymbols}

\* C25: the selected list always holds 1 to 4 symbols without duplicates;
\* addSymbol changes nothing when 4 are selected or the symbol is selected
\* already, removeSymbol changes nothing when one symbol is selected
C25_OneToFourDistinct ==
    /\ Len(selectedSymbols) \in 1..4
    /\ Cardinality(Selected) = Len(selectedSymbols)
    /\ \A sym \in ChartSymbols :
          /\ (Len(selectedSymbols) = 4 \/ sym \in Selected)
                => addSymbol(selectedSymbols, sym) = selectedSymbols
          /\ Len(selectedSymbols) = 1
                => /\ removeSymbol(selectedSymbols, sym) = selectedSymbols
                   /\ chartDataWithout(selectedSymbols, chartData, sym) = chartData

\* Four symbols are selected after BTC was removed from the default list
C25_Witness ==
    /\ viewOpen
    /\ Len(selectedSymbols) = 4
    /\ selectedSymbols[1] = "ETH"
    /\ "BTC" \notin Selected

\* C26: chartData only has entries for selected symbols: a fetch still in flight
\* when its symbol is removed does not put the symbol's data back
C26_CacheOnlyForSelected ==
    DOMAIN chartData \subseteq Selected

\* BTC was removed during its fetch, the fetch has resolved, and its data is cached
C26_RemovedSymbolCached ==
    /\ viewOpen
    /\ selectedSymbols = <<"ETH">>
    /\ chartPending = {}
    /\ "BTC" \in DOMAIN chartData

----------------------------------------------------------------------------
(* Claims about the analyses memo of MultiTimeframe *)

PriceAboveSma == gt(lastPrice, lastSma)
HistogramPositive == gt(lastHistogram, Num(0))
RsiAboveFifty == gt(currentRsi, Num(50))

\* C29: for a loaded timeframe of at least 14 candles the trend is bullish exactly
\* when price is above the SMA, the MACD histogram is positive and RSI is above 50,
\* bearish exactly when none of the three holds, and neutral for every 2-to-1
\* split; the signal sum is odd
C29_TrendNeedsAllThree ==
    (apc = "done" /\ candleCount >= 14 /\ ~entryLoading) =>
        /\ analysis.trend = "bullish"
              <=> (PriceAboveSma /\ HistogramPositive /\ RsiAboveFifty)
        /\ analysis.trend = "bearish"
              <=> (~PriceAboveSma /\ ~HistogramPositive /\ ~RsiAboveFifty)
        /\ analysis.trend \in {"bullish", "bearish", "neutral"}
        /\ analysis.signalSum \in {-3, -1, 1, 3}

\* Price above the SMA and RSI above 50 with an undefined histogram: neutral
C29_Witness ==
    /\ apc = "done" /\ candleCount >= 14 /\ ~entryLoading
    /\ PriceAboveSma /\ RsiAboveFifty /\ isNaN(lastHistogram)
    /\ analysis.trend = "neutral"
    /\ analysis.signalSum = 1
=============================================================================
